---------------------------- MODULE Spec2Model ----------------------------
(***************************************************************************)
(* noserde: record buffers over a little-endian byte image, the framed     *)
(* binary codec (write_binary / read_binary) and the bitsery stream hook.  *)
(*                                                                         *)
(* Bytes are 0..255.  A 64-bit unsigned value is the sequence of its 8     *)
(* base-256 digits, most significant digit first, so that 64-bit products  *)
(* are computed digit by digit and wrap exactly as in the code.            *)
(* Storage exhaustion is not modelled: an allocation of no more than the   *)
(* container's max_size() always succeeds.                                 *)
(*                                                                         *)
(* The state holds one Buffer (the target of assign_bytes, read_binary and *)
(* the decode hook) and the bytes at rest that a source Buffer was written *)
(* to.  The source Buffer is an input of the writing operations.           *)
(***************************************************************************)
EXTENDS Integers, Sequences, FiniteSets, TLC

VARIABLES cfg, buf, wire, origin, last

vars == <<cfg, buf, wire, origin, last>>

(***************************************************************************)
(* Bounds.                                                                 *)
(***************************************************************************)
MaxRecs == 2

(***************************************************************************)
(* Byte sequences.                                                         *)
(***************************************************************************)
Min(a, b) == IF a < b THEN a ELSE b

Zeros(n) == [i \in 1..n |-> 0]

Rev(s) == [i \in 1..Len(s) |-> s[Len(s) + 1 - i]]

\* bytes [from, from+n) of s, offsets counted from 0
Slice(s, from, n) == SubSeq(s, from + 1, from + n)

\* s with the bytes at offsets [at, at+Len(d)) replaced by d (memcpy)
Patch(s, at, d) == SubSeq(s, 1, at) \o d \o SubSeq(s, at + Len(d) + 1, Len(s))

(***************************************************************************)
(* 64-bit unsigned arithmetic on digit sequences.                          *)
(***************************************************************************)
U64Zero == Zeros(8)

\* a natural below 2^31 as a 64-bit value
U64FromNat(n) ==
    <<0, 0, 0, 0, (n \div 16777216) % 256, (n \div 65536) % 256, (n \div 256) % 256, n % 256>>

\* std::uint64_t multiplication: the low 64 bits of the product.  s_k is the
\* sum of the digit products of weight 256^k plus the carry out of s_(k-1).
U64Mul(a, b) ==
    LET
        s0 == a[8] * b[8]
        s1 == a[8] * b[7] + a[7] * b[8] + (s0 \div 256)
        s2 == a[8] * b[6] + a[7] * b[7] + a[6] * b[8] + (s1 \div 256)
        s3 == a[8] * b[5] + a[7] * b[6] + a[6] * b[7] + a[5] * b[8]
              + (s2 \div 256)
        s4 == a[8] * b[4] + a[7] * b[5] + a[6] * b[6] + a[5] * b[7]
              + a[4] * b[8] + (s3 \div 256)
        s5 == a[8] * b[3] + a[7] * b[4] + a[6] * b[5] + a[5] * b[6]
              + a[4] * b[7] + a[3] * b[8] + (s4 \div 256)
        s6 == a[8] * b[2] + a[7] * b[3] + a[6] * b[4] + a[5] * b[5]
              + a[4] * b[6] + a[3] * b[7] + a[2] * b[8] + (s5 \div 256)
        s7 == a[8] * b[1] + a[7] * b[2] + a[6] * b[3] + a[5] * b[4]
              + a[4] * b[5] + a[3] * b[6] + a[2] * b[7] + a[1] * b[8]
              + (s6 \div 256)
    IN  <<s7 % 256, s6 % 256, s5 % 256, s4 % 256,
          s3 % 256, s2 % 256, s1 % 256, s0 % 256>>

RECURSIVE DigitsLess(_, _, _)
DigitsLess(a, b, i) ==
    IF i > Len(a) THEN FALSE
    ELSE IF a[i] # b[i] THEN a[i] < b[i]
    ELSE DigitsLess(a, b, i + 1)

U64Less(a, b) == DigitsLess(a, b, 1)

(***************************************************************************)
(* Little-endian scalar codec.                                             *)
(***************************************************************************)
\* load_le<std::uint64_t>: wire byte k carries weight 256^k
load_le_u64(bs) == Rev(bs)

\* store_le<std::uint64_t>
store_le_u64(v) == Rev(v)

\* store_le<std::int16_t>: the two's-complement pattern, low byte first
store_le_i16(v) ==
    LET u == (v + 65536) % 65536
    IN  <<u % 256, u \div 256>>

\* load_le<std::int16_t>
load_le_i16(bs) ==
    LET u == bs[1] + 256 * bs[2]
    IN  IF u >= 32768 THEN u - 65536 ELSE u

(***************************************************************************)
(* Schemas and Buffer instantiations.                                      *)
(*   Inner     { int16 score; bool enabled }   generated record, stride 3  *)
(*   Pair      { int16 x; int16 y }            generated record, stride 4  *)
(*   PodSample { uint32 a; float b }           native POD, sizeof 8        *)
(*   Node      { bool valid; variant<Pair, uint64, float> payload;          *)
(*               Mode mode }                    generated record, stride 14 *)
(*   Example   { bool flag; int32 id; Inner inner; tagged int32 | double    *)
(*               value; Kind kind }             generated record, stride 21 *)
(*   InlineDemo { { int16 x; bool enabled } meta; union_<InlineWords,       *)
(*               double> payload; uint8 marker } generated record, stride 12 *)
(*   PodEnvelope { fvec3 point; variant<fvec3, uint32> tagged;             *)
(*               union_<fvec3, uint32> raw }    generated record, stride 40 *)
(*   DefaultsExample { bool flag = true; int32 count = 7;                  *)
(*               Vec2D point = Vec2D(11, -3);                               *)
(*               variant<int32, Vec2D, double> tagged = Vec2D(4, 5);        *)
(*               union_<uint32, float, Vec2D> raw = Vec2D(9, 8) }           *)
(*               with Vec2D { int32 x; int32 y }  generated record,        *)
(*               stride 33                                                  *)
(***************************************************************************)
\* has_record_traits_v<T>
has_record_traits(schema) ==
    schema \in {"Inner", "Pair", "Node", "Example", "InlineDemo", "PodEnvelope",
                "DefaultsExample"}

\* Buffer::kRecordSize of the instantiations explored
kRecordSize(schema) ==
    CASE schema = "Inner" -> 3
      [] schema = "Pair" -> 4
      [] schema = "PodSample" -> 8
      [] schema = "Node" -> 14
      [] schema = "Example" -> 21
      [] schema = "InlineDemo" -> 12
      [] schema = "PodEnvelope" -> 40
      [] schema = "DefaultsExample" -> 33

\* Buffer::kSchemaHash of the instantiations explored: three distinct values
kSchemaHash(schema) ==
    CASE schema = "Inner" -> <<29, 177, 4, 96, 233, 18, 71, 135>>
      [] schema = "Pair" -> <<202, 63, 144, 7, 81, 250, 12, 46>>
      [] schema = "PodSample" -> <<88, 5, 190, 121, 34, 167, 203, 19>>

\* Buffer<T, T_RecordsPerPage, T_ByteStoragePolicy>
Instance(schema, rpp, policy) == [schema |-> schema, rpp |-> rpp, policy |-> policy]

\* is_vector_storage_policy<T_ByteStoragePolicy>::value
is_vector_storage_policy(c) == c.policy = "vector"

stride(c) == kRecordSize(c.schema)

\* Buffer::kPageBytes
kPageBytes(c) == c.rpp * stride(c)

\* the (source, target) instantiations explored
ConfigPairs ==
    { [src |-> Instance("Inner", 1, "segmented"), dst |-> Instance("Inner", 256, "vector")],
      [src |-> Instance("Inner", 256, "vector"), dst |-> Instance("Inner", 1, "segmented")],
      [src |-> Instance("Pair", 2, "segmented"), dst |-> Instance("Pair", 2, "segmented")],
      [src |-> Instance("Pair", 2, "segmented"), dst |-> Instance("Inner", 2, "segmented")],
      [src |-> Instance("PodSample", 1, "segmented"), dst |-> Instance("PodSample", 4, "vector")],
      [src |-> Instance("PodSample", 4, "vector"), dst |-> Instance("PodSample", 1, "segmented")] }

(***************************************************************************)
(* Buffer storage.  A record buffer holds bytes_, a sequence of bytes; a   *)
(* native-POD buffer holds values_, a sequence of elements, each the       *)
(* sizeof(T) bytes of its object representation.                           *)
(***************************************************************************)
RECURSIVE Flatten(_)
Flatten(vs) == IF vs = <<>> THEN <<>> ELSE Head(vs) \o Flatten(Tail(vs))

\* the elements laid over a byte range whose length is a multiple of w
Elements(bs, w) == [i \in 1..(Len(bs) \div w) |-> Slice(bs, (i - 1) * w, w)]

\* resize(n) of a vector or segmented_vector: new elements are value-initialised
Resize(st, n, fill) ==
    IF n <= Len(st) THEN SubSeq(st, 1, n)
    ELSE st \o [i \in 1..(n - Len(st)) |-> fill]

\* Buffer::size
size(c, st) ==
    IF has_record_traits(c.schema)
    THEN (IF stride(c) = 0 THEN 0 ELSE Len(st) \div stride(c))
    ELSE Len(st)

\* Buffer::byte_size
byte_size(c, st) ==
    IF has_record_traits(c.schema) THEN Len(st) ELSE Len(st) * kRecordSize(c.schema)

\* Buffer::clear
clear(c, st) == <<>>

\* the wire bytes of T::Data{} for the generated records explored.  Without
\* declared defaults every scalar is zero and every sum holds its first
\* alternative, zero; DefaultsExample declares flag = true, count = 7,
\* point = (11, -3), tagged = its second alternative (4, 5), raw = (9, 8)
defaults(c) ==
    IF c.schema = "DefaultsExample"
    THEN <<1>> \o <<7, 0, 0, 0>> \o <<11, 0, 0, 0, 253, 255, 255, 255>>
             \o <<1, 0, 0, 0>> \o <<4, 0, 0, 0, 5, 0, 0, 0>>
             \o <<9, 0, 0, 0, 8, 0, 0, 0>>
    ELSE Zeros(stride(c))

\* record_data_traits<T>::assign(out, defaults): every field of the record at
\* byte offset at written from the value
assign_defaults(c, st, at) == Patch(st, at, defaults(c))

\* fault: the appended bytes are left as the allocator handed them out
emplace_back_stale(c, st) ==
    IF has_record_traits(c.schema)
    THEN Resize(st, Len(st) + stride(c), 205)
    ELSE Append(st, [i \in 1..kRecordSize(c.schema) |-> 205])

\* Buffer::emplace_back: the storage grown by one stride, the appended bytes
\* zeroed, then the defaults assigned
emplace_back(c, st) ==
    IF has_record_traits(c.schema)
    THEN LET old_size == Len(st)
             grown == Resize(st, old_size + stride(c), 0)
             zeroed == Patch(grown, old_size, Zeros(stride(c)))
         IN  assign_defaults(c, zeroed, old_size)
    ELSE Append(st, Zeros(kRecordSize(c.schema)))

\* memcpy from a page-local range of the storage
ReadStorage(c, st, offset, n) ==
    IF has_record_traits(c.schema) THEN Slice(st, offset, n)
    ELSE Flatten(SubSeq(st, offset \div kRecordSize(c.schema) + 1,
                        (offset + n) \div kRecordSize(c.schema)))

\* memcpy into a page-local range of the storage
WriteStorage(c, st, offset, d) ==
    IF has_record_traits(c.schema) THEN Patch(st, offset, d)
    ELSE Patch(st, offset \div kRecordSize(c.schema), Elements(d, kRecordSize(c.schema)))

RECURSIVE bytes_loop(_, _, _, _)
\* the while loop of Buffer::bytes
bytes_loop(c, st, out, offset) ==
    IF offset < byte_size(c, st)
    THEN LET chunk == Min(kPageBytes(c), byte_size(c, st) - offset)
         IN  bytes_loop(c, st, Patch(out, offset, ReadStorage(c, st, offset, chunk)),
                        offset + chunk)
    ELSE out

\* Buffer::bytes
bytes(c, st) ==
    LET out == Zeros(byte_size(c, st))
    IN  IF has_record_traits(c.schema) THEN bytes_loop(c, st, out, 0)
        ELSE IF out = <<>> THEN out
        ELSE IF is_vector_storage_policy(c) THEN Patch(out, 0, Flatten(st))
        ELSE bytes_loop(c, st, out, 0)

RECURSIVE assign_loop_stuck(_, _, _, _)
\* fault: the destination of the memcpy does not advance with offset
assign_loop_stuck(c, st, payload, offset) ==
    IF offset < Len(payload)
    THEN LET chunk == Min(kPageBytes(c), Len(payload) - offset)
         IN  assign_loop_stuck(c, WriteStorage(c, st, 0, Slice(payload, offset, chunk)),
                               payload, offset + chunk)
    ELSE st

RECURSIVE assign_loop(_, _, _, _)
\* the while loop of Buffer::assign_bytes_impl
assign_loop(c, st, payload, offset) ==
    IF offset < Len(payload)
    THEN LET chunk == Min(kPageBytes(c), Len(payload) - offset)
         IN  assign_loop(c, WriteStorage(c, st, offset, Slice(payload, offset, chunk)),
                         payload, offset + chunk)
    ELSE st

\* fault: a record buffer takes a payload whose size is no multiple of the stride
assign_bytes_impl_unchecked(c, st, payload) ==
    IF has_record_traits(c.schema)
    THEN LET sized == Resize(st, Len(payload), 0)
         IN  [res |-> "ok",
              st |-> IF payload # <<>> THEN assign_loop(c, sized, payload, 0) ELSE sized]
    ELSE IF Len(payload) % kRecordSize(c.schema) # 0
         THEN [res |-> "payload_size_mismatch", st |-> st]
         ELSE LET record_count == Len(payload) \div kRecordSize(c.schema)
                  sized == Resize(st, record_count, Zeros(kRecordSize(c.schema)))
              IN  [res |-> "ok",
                   st |-> IF payload = <<>> THEN sized
                          ELSE IF is_vector_storage_policy(c)
                               THEN WriteStorage(c, sized, 0, payload)
                               ELSE assign_loop(c, sized, payload, 0)]

\* fault: the storage is resized before the payload size is checked
assign_bytes_impl_resizing(c, st, payload) ==
    IF has_record_traits(c.schema)
    THEN LET sized == Resize(st, Len(payload), 0)
         IN  IF stride(c) = 0 \/ Len(payload) % stride(c) # 0
             THEN [res |-> "payload_size_mismatch", st |-> sized]
             ELSE [res |-> "ok",
                   st |-> IF payload # <<>> THEN assign_loop(c, sized, payload, 0) ELSE sized]
    ELSE LET record_count == Len(payload) \div kRecordSize(c.schema)
             sized == Resize(st, record_count, Zeros(kRecordSize(c.schema)))
         IN  IF Len(payload) % kRecordSize(c.schema) # 0
             THEN [res |-> "payload_size_mismatch", st |-> sized]
             ELSE [res |-> "ok",
                   st |-> IF payload = <<>> THEN sized
                          ELSE IF is_vector_storage_policy(c)
                               THEN WriteStorage(c, sized, 0, payload)
                               ELSE assign_loop(c, sized, payload, 0)]

\* Buffer::assign_bytes_impl; res is "ok" or the io_error
assign_bytes_impl(c, st, payload) ==
    IF has_record_traits(c.schema)
    THEN IF stride(c) = 0 \/ Len(payload) % stride(c) # 0
         THEN [res |-> "payload_size_mismatch", st |-> st]
         ELSE LET sized == Resize(st, Len(payload), 0)
              IN  [res |-> "ok",
                   st |-> IF payload # <<>> THEN assign_loop(c, sized, payload, 0) ELSE sized]
    ELSE IF Len(payload) % kRecordSize(c.schema) # 0
         THEN [res |-> "payload_size_mismatch", st |-> st]
         ELSE LET record_count == Len(payload) \div kRecordSize(c.schema)
                  sized == Resize(st, record_count, Zeros(kRecordSize(c.schema)))
              IN  [res |-> "ok",
                   st |-> IF payload = <<>> THEN sized
                          ELSE IF is_vector_storage_policy(c)
                               THEN WriteStorage(c, sized, 0, payload)
                               ELSE assign_loop(c, sized, payload, 0)]

\* Buffer::assign_bytes
assign_bytes(c, st, payload) == assign_bytes_impl(c, st, payload)

(***************************************************************************)
(* Framed binary codec.                                                    *)
(***************************************************************************)
\* a path at which no file exists (no byte is -1)
NoFile == <<-1>>

\* k_binary_magic: 'N' 'S' 'R' 'D' 'B' 'I' 'N' '1'
k_binary_magic == <<78, 83, 82, 68, 66, 73, 78, 49>>

k_binary_header_size == 40

RECURSIVE DigitsValue(_, _, _)
DigitsValue(a, i, r) == IF i > Len(a) THEN r ELSE DigitsValue(a, i + 1, r * 256 + a[i])

\* static_cast<std::size_t> of a 64-bit value that fits the model's integers
U64ToNat(a) == DigitsValue(a, 1, 0)

\* std::vector<std::uint8_t>::max_size() where std::size_t has 64 bits: 2^63 - 1.
\* The constructor throws when asked for more; asked for less it is taken to
\* succeed.
vector_max_size == <<127, 255, 255, 255, 255, 255, 255, 255>>

\* fault: the record_count and payload_size fields of the header are exchanged
write_binary_swapped(c, st, old, openable) ==
    IF ~openable THEN [res |-> "open_failed", file |-> old]
    ELSE LET header == k_binary_magic
                       \o store_le_u64(kSchemaHash(c.schema))
                       \o store_le_u64(U64FromNat(kRecordSize(c.schema)))
                       \o store_le_u64(U64FromNat(byte_size(c, st)))
                       \o store_le_u64(U64FromNat(size(c, st)))
             payload == bytes(c, st)
         IN  [res |-> "ok", file |-> header \o payload]

\* fault: the stream is opened for appending, the file is not truncated
write_binary_appending(c, st, old, openable) ==
    IF ~openable THEN [res |-> "open_failed", file |-> old]
    ELSE LET header == k_binary_magic
                       \o store_le_u64(kSchemaHash(c.schema))
                       \o store_le_u64(U64FromNat(kRecordSize(c.schema)))
                       \o store_le_u64(U64FromNat(size(c, st)))
                       \o store_le_u64(U64FromNat(byte_size(c, st)))
             payload == bytes(c, st)
         IN  [res |-> "ok",
              file |-> (IF old = NoFile THEN <<>> ELSE old) \o header \o payload]

\* write_binary; openable is whether the ofstream opens.  Returns the result
\* and the file left at the path.
write_binary(c, st, old, openable) ==
    IF ~openable THEN [res |-> "open_failed", file |-> old]
    ELSE LET header == k_binary_magic
                       \o store_le_u64(kSchemaHash(c.schema))
                       \o store_le_u64(U64FromNat(kRecordSize(c.schema)))
                       \o store_le_u64(U64FromNat(size(c, st)))
                       \o store_le_u64(U64FromNat(byte_size(c, st)))
             payload == bytes(c, st)
         IN  [res |-> "ok", file |-> header \o payload]

\* read_binary with one fault:
\*   "clearing"      the target is cleared whenever an error is returned
\*   "early_resize"  the target is resized to the payload before the payload is read
read_binary_faulty(c, st, f, fault) ==
    LET kept == IF fault = "clearing" THEN clear(c, st) ELSE st
    IN  IF f = NoFile THEN [res |-> "open_failed", st |-> kept]
        ELSE IF Len(f) < k_binary_header_size THEN [res |-> "read_failed", st |-> kept]
        ELSE LET header == Slice(f, 0, k_binary_header_size)
                 schema_hash == load_le_u64(Slice(header, 8, 8))
                 record_size == load_le_u64(Slice(header, 16, 8))
                 record_count == load_le_u64(Slice(header, 24, 8))
                 payload_size == load_le_u64(Slice(header, 32, 8))
                 avail == Len(f) - k_binary_header_size
                 bad_magic == Slice(header, 0, 8) # k_binary_magic
                 bad_schema == schema_hash # kSchemaHash(c.schema)
                               \/ record_size # U64FromNat(kRecordSize(c.schema))
                 short == payload_size # U64Zero /\ U64Less(U64FromNat(avail), payload_size)
             IN  IF bad_magic THEN [res |-> "invalid_header", st |-> kept]
                 ELSE IF bad_schema THEN [res |-> "schema_mismatch", st |-> kept]
                 ELSE IF payload_size # U64Mul(record_size, record_count)
                 THEN [res |-> "invalid_header", st |-> kept]
                 ELSE IF U64Less(vector_max_size, payload_size)
                 THEN [res |-> "exception", st |-> st]
                 ELSE IF short /\ fault = "early_resize"
                 THEN [res |-> "truncated_payload",
                       st |-> IF has_record_traits(c.schema) THEN Zeros(avail)
                              ELSE [i \in 1..(avail \div kRecordSize(c.schema)) |->
                                      Zeros(kRecordSize(c.schema))]]
                 ELSE IF short THEN [res |-> "truncated_payload", st |-> kept]
                 ELSE LET r == assign_bytes(c, st, Slice(f, k_binary_header_size,
                                                         U64ToNat(payload_size)))
                      IN  IF r.res = "ok" THEN r ELSE [res |-> r.res, st |-> kept]

read_binary_clearing(c, st, f) == read_binary_faulty(c, st, f, "clearing")

read_binary_early_resize(c, st, f) == read_binary_faulty(c, st, f, "early_resize")

\* read_binary of the file f into a buffer with storage st.  res is "ok", the
\* io_error returned, or "exception" when the call returns nothing because the
\* constructor of the payload vector throws.
read_binary(c, st, f) ==
    IF f = NoFile THEN [res |-> "open_failed", st |-> st]
    ELSE IF Len(f) < k_binary_header_size THEN [res |-> "read_failed", st |-> st]
    ELSE LET header == Slice(f, 0, k_binary_header_size)
             schema_hash == load_le_u64(Slice(header, 8, 8))
             record_size == load_le_u64(Slice(header, 16, 8))
             record_count == load_le_u64(Slice(header, 24, 8))
             payload_size == load_le_u64(Slice(header, 32, 8))
             avail == Len(f) - k_binary_header_size
         IN  IF Slice(header, 0, 8) # k_binary_magic
             THEN [res |-> "invalid_header", st |-> st]
             ELSE IF schema_hash # kSchemaHash(c.schema)
                     \/ record_size # U64FromNat(kRecordSize(c.schema))
             THEN [res |-> "schema_mismatch", st |-> st]
             ELSE IF payload_size # U64Mul(record_size, record_count)
             THEN [res |-> "invalid_header", st |-> st]
             ELSE IF U64Less(vector_max_size, payload_size)
             THEN [res |-> "exception", st |-> st]
             ELSE IF payload_size # U64Zero /\ U64Less(U64FromNat(avail), payload_size)
             THEN [res |-> "truncated_payload", st |-> st]
             ELSE assign_bytes(c, st, Slice(f, k_binary_header_size, U64ToNat(payload_size)))

(***************************************************************************)
(* bitsery input adapter and size prefix.                                  *)
(***************************************************************************)
InputAdapter(data) == [data |-> data, pos |-> 0, err |-> "NoError"]

\* adapter.error(e): the first error is kept
AdapterError(ad, e) == IF ad.err = "NoError" THEN [ad EXCEPT !.err = e] ELSE ad

\* readBytes / readBuffer of n bytes: past the end the destination is zeroed
\* and the adapter goes to DataOverflow
AdapterRead(ad, n) ==
    IF ad.err = "NoError" /\ ad.pos + n <= Len(ad.data)
    THEN [ad |-> [ad EXCEPT !.pos = @ + n], out |-> Slice(ad.data, ad.pos, n)]
    ELSE [ad |-> AdapterError(ad, "DataOverflow"), out |-> Zeros(n)]

\* bitsery writeSize (container1b): 1, 2 or 4 bytes
WriteSize(n) ==
    IF n < 128 THEN <<n>>
    ELSE IF n < 16384 THEN <<(n \div 256) + 128, n % 256>>
    ELSE <<(n \div 16777216) + 192, (n \div 65536) % 256, n % 256, (n \div 256) % 256>>

k_bitsery_max_payload_bytes == 1073741823

\* fault: the 2-byte word of the 4-byte form is taken high byte first
read_bitsery_size_prefix_1b_swapped(ad) ==
    LET r1 == AdapterRead(ad, 1)
        hb == r1.out[1]
    IN  IF r1.ad.err # "NoError" THEN [ok |-> FALSE, size |-> 0, ad |-> r1.ad]
        ELSE IF hb < 128 THEN [ok |-> TRUE, size |-> hb, ad |-> r1.ad]
        ELSE LET r2 == AdapterRead(r1.ad, 1)
                 lb == r2.out[1]
             IN  IF r2.ad.err # "NoError" THEN [ok |-> FALSE, size |-> 0, ad |-> r2.ad]
                 ELSE IF (hb \div 64) % 2 # 0
                 THEN LET r3 == AdapterRead(r2.ad, 2)
                          lw == 256 * r3.out[1] + r3.out[2]
                      IN  IF r3.ad.err # "NoError"
                          THEN [ok |-> FALSE, size |-> 0, ad |-> r3.ad]
                          ELSE [ok |-> TRUE,
                                size |-> (((hb % 64) * 256) + lb) * 65536 + lw,
                                ad |-> r3.ad]
                 ELSE [ok |-> TRUE, size |-> ((hb % 128) * 256) + lb, ad |-> r2.ad]

\* fault: the 4-byte form masks the first byte with 0x7F
read_bitsery_size_prefix_1b_wide(ad) ==
    LET r1 == AdapterRead(ad, 1)
        hb == r1.out[1]
    IN  IF r1.ad.err # "NoError" THEN [ok |-> FALSE, size |-> 0, ad |-> r1.ad]
        ELSE IF hb < 128 THEN [ok |-> TRUE, size |-> hb, ad |-> r1.ad]
        ELSE LET r2 == AdapterRead(r1.ad, 1)
                 lb == r2.out[1]
             IN  IF r2.ad.err # "NoError" THEN [ok |-> FALSE, size |-> 0, ad |-> r2.ad]
                 ELSE IF (hb \div 64) % 2 # 0
                 THEN LET r3 == AdapterRead(r2.ad, 2)
                          lw == r3.out[1] + 256 * r3.out[2]
                      IN  IF r3.ad.err # "NoError"
                          THEN [ok |-> FALSE, size |-> 0, ad |-> r3.ad]
                          ELSE [ok |-> TRUE,
                                size |-> (((hb % 128) * 256) + lb) * 65536 + lw,
                                ad |-> r3.ad]
                 ELSE [ok |-> TRUE, size |-> ((hb % 128) * 256) + lb, ad |-> r2.ad]

\* detail::read_bitsery_size_prefix_1b
read_bitsery_size_prefix_1b(ad) ==
    LET r1 == AdapterRead(ad, 1)
        hb == r1.out[1]
    IN  IF r1.ad.err # "NoError" THEN [ok |-> FALSE, size |-> 0, ad |-> r1.ad]
        ELSE IF hb < 128 THEN [ok |-> TRUE, size |-> hb, ad |-> r1.ad]
        ELSE LET r2 == AdapterRead(r1.ad, 1)
                 lb == r2.out[1]
             IN  IF r2.ad.err # "NoError" THEN [ok |-> FALSE, size |-> 0, ad |-> r2.ad]
                 ELSE IF (hb \div 64) % 2 # 0
                 THEN LET r3 == AdapterRead(r2.ad, 2)
                          lw == r3.out[1] + 256 * r3.out[2]
                      IN  IF r3.ad.err # "NoError"
                          THEN [ok |-> FALSE, size |-> 0, ad |-> r3.ad]
                          ELSE [ok |-> TRUE,
                                size |-> (((hb % 64) * 256) + lb) * 65536 + lw,
                                ad |-> r3.ad]
                 ELSE [ok |-> TRUE, size |-> ((hb % 128) * 256) + lb, ad |-> r2.ad]

\* fault: the loop returns after its first page
read_payload_loop_one_page(c, st, ad, payload_size, offset) ==
    IF offset < payload_size
    THEN LET chunk == Min(kPageBytes(c), payload_size - offset)
             r == AdapterRead(ad, chunk)
         IN  IF r.ad.err # "NoError"
             THEN [ok |-> FALSE, st |-> clear(c, st), ad |-> r.ad]
             ELSE [ok |-> TRUE, st |-> WriteStorage(c, st, offset, r.out), ad |-> r.ad]
    ELSE [ok |-> TRUE, st |-> st, ad |-> ad]

RECURSIVE read_payload_loop(_, _, _, _, _)
\* the page-wise loop of Buffer::read_payload_from_bitsery
read_payload_loop(c, st, ad, payload_size, offset) ==
    IF offset < payload_size
    THEN LET chunk == Min(kPageBytes(c), payload_size - offset)
             r == AdapterRead(ad, chunk)
         IN  IF r.ad.err # "NoError"
             THEN [ok |-> FALSE, st |-> clear(c, st), ad |-> r.ad]
             ELSE read_payload_loop(c, WriteStorage(c, st, offset, r.out), r.ad,
                                    payload_size, offset + chunk)
    ELSE [ok |-> TRUE, st |-> st, ad |-> ad]

\* fault: the storage is grown to the payload but never shrunk to it
read_payload_from_bitsery_grow_only(c, st, ad, payload_size) ==
    IF ~has_record_traits(c.schema) /\ payload_size % kRecordSize(c.schema) # 0
    THEN [ok |-> FALSE, st |-> clear(c, st), ad |-> ad]
    ELSE LET want == IF has_record_traits(c.schema) THEN payload_size
                     ELSE payload_size \div kRecordSize(c.schema)
             sized == IF Len(st) >= want THEN st
                      ELSE IF has_record_traits(c.schema) THEN Resize(st, want, 0)
                      ELSE Resize(st, want, Zeros(kRecordSize(c.schema)))
         IN  IF payload_size = 0 THEN [ok |-> TRUE, st |-> sized, ad |-> ad]
             ELSE IF is_vector_storage_policy(c)
             THEN LET r == AdapterRead(ad, payload_size)
                  IN  IF r.ad.err # "NoError"
                      THEN [ok |-> FALSE, st |-> clear(c, sized), ad |-> r.ad]
                      ELSE [ok |-> TRUE, st |-> WriteStorage(c, sized, 0, r.out), ad |-> r.ad]
             ELSE read_payload_loop(c, sized, ad, payload_size, 0)

\* Buffer::read_payload_from_bitsery
read_payload_from_bitsery(c, st, ad, payload_size) ==
    IF ~has_record_traits(c.schema) /\ payload_size % kRecordSize(c.schema) # 0
    THEN [ok |-> FALSE, st |-> clear(c, st), ad |-> ad]
    ELSE LET sized == IF has_record_traits(c.schema)
                      THEN Resize(st, payload_size, 0)
                      ELSE Resize(st, payload_size \div kRecordSize(c.schema),
                                  Zeros(kRecordSize(c.schema)))
         IN  IF payload_size = 0 THEN [ok |-> TRUE, st |-> sized, ad |-> ad]
             ELSE IF is_vector_storage_policy(c)
             THEN LET r == AdapterRead(ad, payload_size)
                  IN  IF r.ad.err # "NoError"
                      THEN [ok |-> FALSE, st |-> clear(c, sized), ad |-> r.ad]
                      ELSE [ok |-> TRUE, st |-> WriteStorage(c, sized, 0, r.out), ad |-> r.ad]
             ELSE read_payload_loop(c, sized, ad, payload_size, 0)

\* bitsery::serialize, output branch: the bytes appended to the sink
serialize_output(c, st) ==
    LET payload == bytes(c, st)
    IN  store_le_u64(kSchemaHash(c.schema))
        \o store_le_u64(U64FromNat(kRecordSize(c.schema)))
        \o WriteSize(Len(payload)) \o payload

\* fault: a fingerprint or stride mismatch marks the adapter but leaves the
\* target as it was
serialize_input_keeps(c, st, ad) ==
    LET r1 == AdapterRead(ad, 8)
        schema_hash == load_le_u64(r1.out)
        r2 == AdapterRead(r1.ad, 8)
        record_size == load_le_u64(r2.out)
        expected_schema == kSchemaHash(c.schema)
        expected_record_size == kRecordSize(c.schema)
    IN  IF r2.ad.err # "NoError" THEN [st |-> clear(c, st), ad |-> r2.ad]
        ELSE IF schema_hash # expected_schema
                \/ record_size # U64FromNat(expected_record_size)
        THEN [st |-> st, ad |-> AdapterError(r2.ad, "InvalidData")]
        ELSE LET p == read_bitsery_size_prefix_1b(r2.ad)
             IN  IF ~p.ok THEN [st |-> clear(c, st), ad |-> p.ad]
                 ELSE IF p.size > k_bitsery_max_payload_bytes
                         \/ p.size % expected_record_size # 0
                 THEN [st |-> clear(c, st), ad |-> AdapterError(p.ad, "InvalidData")]
                 ELSE LET rp == read_payload_from_bitsery(c, st, p.ad, p.size)
                      IN  IF ~rp.ok THEN [st |-> clear(c, rp.st), ad |-> rp.ad]
                          ELSE [st |-> rp.st, ad |-> rp.ad]

\* bitsery::serialize, input branch: the target's storage and the adapter
\* after the call
serialize_input(c, st, ad) ==
    LET r1 == AdapterRead(ad, 8)
        schema_hash == load_le_u64(r1.out)
        r2 == AdapterRead(r1.ad, 8)
        record_size == load_le_u64(r2.out)
        expected_schema == kSchemaHash(c.schema)
        expected_record_size == kRecordSize(c.schema)
    IN  IF r2.ad.err # "NoError" THEN [st |-> clear(c, st), ad |-> r2.ad]
        ELSE IF schema_hash # expected_schema
                \/ record_size # U64FromNat(expected_record_size)
        THEN [st |-> clear(c, st), ad |-> AdapterError(r2.ad, "InvalidData")]
        ELSE LET p == read_bitsery_size_prefix_1b(r2.ad)
             IN  IF ~p.ok THEN [st |-> clear(c, st), ad |-> p.ad]
                 ELSE IF p.size > k_bitsery_max_payload_bytes
                         \/ p.size % expected_record_size # 0
                 THEN [st |-> clear(c, st), ad |-> AdapterError(p.ad, "InvalidData")]
                 ELSE LET rp == read_payload_from_bitsery(c, st, p.ad, p.size)
                      IN  IF ~rp.ok THEN [st |-> clear(c, rp.st), ad |-> rp.ad]
                          ELSE [st |-> rp.st, ad |-> rp.ad]

(***************************************************************************)
(* Damage to stored bytes between a write and a read.                      *)
(***************************************************************************)
\* 2^62 and the inverse of 3 modulo 2^64
U64Pow62 == <<64, 0, 0, 0, 0, 0, 0, 0>>
U64Inv3 == <<170, 170, 170, 170, 170, 170, 170, 171>>

FlipByte(w, pos) ==
    IF pos < Len(w) THEN Patch(w, pos, <<255 - w[pos + 1]>>) ELSE w

BumpByte(w, pos) ==
    IF pos < Len(w) THEN Patch(w, pos, <<(w[pos + 1] + 1) % 256>>) ELSE w

SetU64(w, off, v) ==
    IF off + 8 <= Len(w) THEN Patch(w, off, store_le_u64(v)) ELSE w

CutTail(w, k) == SubSeq(w, 1, IF Len(w) >= k THEN Len(w) - k ELSE 0)

CutTo(w, n) == SubSeq(w, 1, Min(n, Len(w)))

\* record_count := 2^62 and payload_size := the 64-bit product of the stride
\* field with 2^62
WrapCount(w) ==
    IF Len(w) < 40 THEN w
    ELSE SetU64(SetU64(w, 24, U64Pow62), 32,
                U64Mul(load_le_u64(Slice(w, 16, 8)), U64Pow62))

\* number of bytes of the size prefix that starts at offset 16
PrefixLen(w) ==
    IF Len(w) <= 16 THEN 0
    ELSE IF w[17] < 128 THEN 1
    ELSE IF (w[17] \div 64) % 2 = 0 THEN 2 ELSE 4

\* the size a one-byte prefix at offset 16 announces
PrefixValue(w) == IF PrefixLen(w) = 1 THEN w[17] ELSE 0

\* the size prefix at offset 16 replaced by the bytes enc
SetPrefix(w, enc) ==
    IF PrefixLen(w) = 0 \/ Len(w) < 16 + PrefixLen(w) THEN w
    ELSE SubSeq(w, 1, 16) \o enc \o SubSeq(w, 17 + PrefixLen(w), Len(w))

\* damaged copies of a file written by write_binary
FileDamage(w) ==
    { FlipByte(w, 0), FlipByte(w, 7), FlipByte(FlipByte(w, 0), 8),
      FlipByte(w, 8), FlipByte(w, 15),
      BumpByte(FlipByte(w, 8), 32), CutTail(FlipByte(w, 15), 1),
      FlipByte(w, 16),
      BumpByte(w, 32), SetU64(w, 32, U64Pow62),
      SetU64(w, 24, U64Pow62), WrapCount(w),
      SetU64(SetU64(w, 24, U64Inv3), 32, U64FromNat(1)),
      CutTail(w, 1), CutTo(w, k_binary_header_size),
      CutTo(w, k_binary_header_size - 1), CutTo(w, 0) }

\* damaged copies of a stream written by the encode hook
BlobDamage(w) ==
    { FlipByte(w, 0), FlipByte(w, 8), CutTail(FlipByte(w, 0), 1),
      CutTo(w, 15), CutTo(w, 16),
      SetPrefix(w, <<1>>), SetPrefix(w, <<2 * PrefixValue(w)>>),
      SetPrefix(w, <<128, PrefixValue(w)>>),
      SetPrefix(w, <<192, 0, PrefixValue(w), 0>>),
      SetPrefix(w, <<255, 255, 254, 255>>), SetPrefix(w, <<128>>),
      CutTail(w, 1) }

\* what a reader of the format fmt may find where w was stored by the writer
\* by: w itself or, when the formats agree, a damaged copy
Found(w, by, fmt) ==
    IF w = NoFile \/ by # fmt THEN {w}
    ELSE {w} \cup (IF by = "write_binary" THEN FileDamage(w) ELSE BlobDamage(w))

(***************************************************************************)
(* The source Buffer: k records appended with emplace.                     *)
(***************************************************************************)
\* the value stored into record i
ScoreOf(i) == 0 - 23 - i
PodOf(i) == <<190 + i, 186, 254, 202, 0, 0, 160, 63>>

\* buffer[i].score = v through scalar_ref<int16_t>, or buffer[i] = pod through T&
write_record(c, st, i, score, pod) ==
    IF has_record_traits(c.schema)
    THEN Patch(st, i * stride(c), store_le_i16(score))
    ELSE [st EXCEPT ![i + 1] = pod]

\* buffer[i] read through the const views: the fields of a generated record
\* (int16 at offset 0, then int16 or bool at offset 2), or the element itself
read_record(c, st, i) ==
    IF c.schema = "Pair"
    THEN <<load_le_i16(Slice(st, i * stride(c), 2)), load_le_i16(Slice(st, i * stride(c) + 2, 2))>>
    ELSE IF c.schema = "Inner"
    THEN <<load_le_i16(Slice(st, i * stride(c), 2)), st[i * stride(c) + 3] # 0>>
    ELSE st[i + 1]

\* Buffer::emplace: emplace_back, then record_data_traits<T>::assign(out, data)
emplace(c, st, score, pod) ==
    write_record(c, emplace_back(c, st), size(c, st), score, pod)

RECURSIVE Built(_, _)
Built(c, k) ==
    IF k = 0 THEN <<>>
    ELSE emplace(c, Built(c, k - 1), ScoreOf(k - 1), PodOf(k - 1))

Sources(c) == { Built(c, k) : k \in 0..MaxRecs }

(***************************************************************************)
(* State machine.                                                          *)
(***************************************************************************)
\* who wrote the bytes at rest, and the source Buffer's schema, size() and bytes()
NoOrigin == [by |-> "none", schema |-> "none", count |-> 0, payload |-> <<>>]

\* what the last operation was: its result, its input bytes, the adapter error
\* it left and the storage the Buffer held before it
Done(op, res, input, err, pre) ==
    [op |-> op, res |-> res, input |-> input, err |-> err, pre |-> pre]

Init ==
    /\ cfg \in ConfigPairs
    /\ buf = <<>>
    /\ wire = NoFile
    /\ origin = NoOrigin
    /\ last = Done("init", "ok", <<>>, "NoError", <<>>)

\* buffer.emplace_back()
EmplaceBack ==
    /\ size(cfg.dst, buf) < MaxRecs
    /\ buf' = emplace_back(cfg.dst, buf)
    /\ last' = Done("emplace_back", "ok", <<>>, "NoError", buf)
    /\ UNCHANGED <<cfg, wire, origin>>

\* buffer.clear()
Clear ==
    /\ buf' = clear(cfg.dst, buf)
    /\ last' = Done("clear", "ok", <<>>, "NoError", buf)
    /\ UNCHANGED <<cfg, wire, origin>>

\* buffer.emplace(args...): emplace_back, then the fields assigned from args
Emplace ==
    /\ size(cfg.dst, buf) < MaxRecs
    /\ buf' = emplace(cfg.dst, buf, 258, PodOf(7))
    /\ last' = Done("emplace", "ok", <<>>, "NoError", buf)
    /\ UNCHANGED <<cfg, wire, origin>>

\* buffer.assign_bytes(payload): all of source.bytes(), or all but its last byte
AssignBytes ==
    \E src \in Sources(cfg.src) :
        \E n \in {byte_size(cfg.src, src), byte_size(cfg.src, src) - 1} \cap Nat :
            LET payload == SubSeq(bytes(cfg.src, src), 1, n)
                r == assign_bytes(cfg.dst, buf, payload)
            IN  /\ buf' = r.st
                /\ last' = Done("assign_bytes", r.res, payload, "NoError", buf)
                /\ UNCHANGED <<cfg, wire, origin>>

\* write_binary(path, source)
WriteBinary ==
    \E src \in Sources(cfg.src), openable \in BOOLEAN :
        LET r == write_binary(cfg.src, src, wire, openable)
        IN  /\ wire' = r.file
            /\ origin' = IF r.res = "ok"
                         THEN [by |-> "write_binary", schema |-> cfg.src.schema,
                               count |-> size(cfg.src, src),
                               payload |-> bytes(cfg.src, src)]
                         ELSE origin
            /\ last' = Done("write_binary", r.res, wire, "NoError", buf)
            /\ UNCHANGED <<cfg, buf>>

\* read_binary(path, buffer), the file being what was stored or a damaged copy
ReadBinary ==
    \E f \in Found(wire, origin.by, "write_binary") :
        LET r == read_binary(cfg.dst, buf, f)
        IN  /\ buf' = r.st
            /\ last' = Done("read_binary", r.res, f, "NoError", buf)
            /\ UNCHANGED <<cfg, wire, origin>>

\* bitsery::quickSerialization(OutputBufferAdapter(blob), source)
Encode ==
    \E src \in Sources(cfg.src) :
        /\ wire' = serialize_output(cfg.src, src)
        /\ origin' = [by |-> "encode", schema |-> cfg.src.schema,
                      count |-> size(cfg.src, src),
                      payload |-> bytes(cfg.src, src)]
        /\ last' = Done("encode", "ok", <<>>, "NoError", buf)
        /\ UNCHANGED <<cfg, buf>>

\* bitsery::quickDeserialization(InputBufferAdapter(blob), buffer)
Decode ==
    /\ wire # NoFile
    /\ \E data \in Found(wire, origin.by, "encode") :
        LET r == serialize_input(cfg.dst, buf, InputAdapter(data))
        IN  /\ buf' = r.st
            /\ last' = Done("decode", IF r.ad.err = "NoError" THEN "ok" ELSE "failed",
                            data, r.ad.err, buf)
            /\ UNCHANGED <<cfg, wire, origin>>

Next ==
    \/ EmplaceBack
    \/ Clear
    \/ Emplace
    \/ AssignBytes
    \/ WriteBinary
    \/ ReadBinary
    \/ Encode
    \/ Decode

Spec == Init /\ [][Next]_vars

\* the byte-image operations alone
NextBytes ==
    \/ EmplaceBack
    \/ Clear
    \/ Emplace
    \/ AssignBytes

SpecBytes == Init /\ [][NextBytes]_vars

\* the framed binary codec alone
NextFile ==
    \/ EmplaceBack
    \/ Clear
    \/ WriteBinary
    \/ ReadBinary

SpecFile == Init /\ [][NextFile]_vars

\* the stream hook alone
NextStream ==
    \/ EmplaceBack
    \/ Clear
    \/ Encode
    \/ Decode

SpecStream == Init /\ [][NextStream]_vars

(***************************************************************************)
(* Properties.                                                             *)
(***************************************************************************)
Target == cfg.dst

Source == cfg.src

\* the target is in the cleared state
Cleared == size(Target, buf) = 0 /\ byte_size(Target, buf) = 0

\* C1: byte_size() == size() * stride after every operation (emplace_back,
\* emplace, clear, assign_bytes succeeding or failing, read_binary, decode),
\* and each emplace_back or emplace adds exactly one stride to a buffer, so
\* that N of them on a fresh buffer give byte_size() == N * stride.
C1_ByteSizeIsSizeTimesStride ==
    /\ byte_size(Target, buf) = size(Target, buf) * stride(Target)
    /\ last.op \in {"emplace_back", "emplace"} =>
          /\ size(Target, buf) = size(Target, last.pre) + 1
          /\ byte_size(Target, buf) = (size(Target, last.pre) + 1) * stride(Target)
    /\ last.op = "clear" => Cleared

\* a failing assign_bytes on a record buffer that holds two records
C1_Witness ==
    /\ last.op = "assign_bytes"
    /\ last.res = "payload_size_mismatch"
    /\ has_record_traits(Target.schema)
    /\ size(Target, buf) = 2
    /\ byte_size(Target, buf) = 2 * stride(Target)

\* C2: for every source B and every target D of the same schema, whatever D
\* held, D.assign_bytes(B.bytes()) succeeds and leaves D.size() == B.size(),
\* D.bytes() == B.bytes() and D[i] reading the same field values as B[i].
C2_AssignBytesRoundTrip ==
    (last.op = "assign_bytes" /\ Source.schema = Target.schema) =>
        \A src \in Sources(Source) :
            last.input = bytes(Source, src) =>
                /\ last.res = "ok"
                /\ size(Target, buf) = size(Source, src)
                /\ bytes(Target, buf) = bytes(Source, src)
                /\ \A i \in 0..(size(Source, src) - 1) :
                      read_record(Target, buf, i) = read_record(Source, src, i)

\* two records assigned across pages into a segmented target that held others
C2_Witness ==
    /\ last.op = "assign_bytes"
    /\ last.res = "ok"
    /\ Source.schema = Target.schema
    /\ ~is_vector_storage_policy(Target)
    /\ last.input = bytes(Source, Built(Source, 2))
    /\ last.pre # <<>>
    /\ last.pre # buf
    /\ read_record(Target, buf, 1) = read_record(Source, Built(Source, 2), 1)

\* the last read_binary found the bytes exactly as write_binary left them
ReadPristineFile ==
    /\ last.op = "read_binary"
    /\ origin.by = "write_binary"
    /\ last.input = wire

\* C3: write_binary(path, B) followed by read_binary(path, D), D of the same
\* schema, returns success and leaves D.size() == B.size() and
\* D.bytes() == B.bytes().
C3_BinaryRoundTrip ==
    (ReadPristineFile /\ origin.schema = Target.schema) =>
        /\ last.res = "ok"
        /\ size(Target, buf) = origin.count
        /\ bytes(Target, buf) = origin.payload

\* two records written from one storage policy and read into the other, over
\* a target that held something else
C3_Witness ==
    /\ ReadPristineFile
    /\ origin.schema = Target.schema
    /\ is_vector_storage_policy(Source) # is_vector_storage_policy(Target)
    /\ last.res = "ok"
    /\ origin.count = 2
    /\ size(Target, buf) = 2
    /\ last.pre # <<>>
    /\ last.pre # buf

\* the last decode found the bytes exactly as the encode hook left them
DecodedPristineStream ==
    /\ last.op = "decode"
    /\ origin.by = "encode"
    /\ last.input = wire

\* C4: encoding B and decoding the produced bytes into D of the same schema
\* signals no reader error and leaves D.size() == B.size() and
\* D.bytes() == B.bytes(): for the empty B, for a D that was not empty (its
\* contents are replaced) and from segmented B to contiguous D.
C4_StreamRoundTrip ==
    (DecodedPristineStream /\ origin.schema = Target.schema) =>
        /\ last.err = "NoError"
        /\ last.res = "ok"
        /\ size(Target, buf) = origin.count
        /\ bytes(Target, buf) = origin.payload
        /\ origin.count = 0 => Cleared

\* one record decoded from a segmented source into a contiguous target that
\* held two
C4_Witness ==
    /\ DecodedPristineStream
    /\ origin.schema = Target.schema
    /\ ~is_vector_storage_policy(Source)
    /\ is_vector_storage_policy(Target)
    /\ size(Target, last.pre) = 2
    /\ origin.count = 1
    /\ size(Target, buf) = 1
    /\ last.err = "NoError"

\* Exact arithmetic on 64-bit header fields, for stating what a header says.
\* digit of weight 256^k (k = 0 is the least significant)
Digit(a, k) == a[Len(a) - k]

RECURSIVE ColumnSum(_, _, _, _)
\* sum of Digit(a, i) * Digit(b, k - i) for i in lo..k with both digits present
ColumnSum(a, b, k, i) ==
    IF i > k \/ i >= Len(a) THEN 0
    ELSE (IF k - i < Len(b) THEN Digit(a, i) * Digit(b, k - i) ELSE 0)
         + ColumnSum(a, b, k, i + 1)

RECURSIVE MulDigits(_, _, _, _, _)
\* digits k..n-1 of a * b, least significant first, given the carry into k
MulDigits(a, b, k, n, carry) ==
    IF k = n THEN <<>>
    ELSE LET s == ColumnSum(a, b, k, 0) + carry
         IN  <<s % 256>> \o MulDigits(a, b, k + 1, n, s \div 256)

\* the exact product of two 64-bit values, 128 bits wide
WideMul(a, b) == Rev(MulDigits(a, b, 0, 16, 0))

\* a 64-bit value widened to 128 bits
Widen(a) == Zeros(8) \o a

\* a % m for a 64-bit a and a small natural m
RECURSIVE ModDigits(_, _, _, _)
ModDigits(a, m, i, r) ==
    IF i > Len(a) THEN r ELSE ModDigits(a, m, i + 1, (r * 256 + a[i]) % m)

U64Mod(a, m) == ModDigits(a, m, 1, 0)

\* the file the last read_binary was given
File == last.input

\* a file that opens and holds the 40 header bytes
HeaderComplete(f) == f # NoFile /\ Len(f) >= 40

\* the little-endian 64-bit header field at byte offset off
HeaderField(f, off) == load_le_u64(Slice(f, off, 8))

\* the number of bytes that follow the header
Following(f) == Len(f) - 40

\* the k-th check of the validation order fails on f, taken by itself
CheckFails(c, f, k) ==
    CASE k = 1 -> f = NoFile
      [] k = 2 -> f # NoFile /\ Len(f) < 40
      [] k = 3 -> HeaderComplete(f) /\ Slice(f, 0, 8) # <<78, 83, 82, 68, 66, 73, 78, 49>>
      [] k = 4 -> HeaderComplete(f)
                  /\ (\/ HeaderField(f, 8) # kSchemaHash(c.schema)
                      \/ HeaderField(f, 16) # U64FromNat(stride(c)))
      [] k = 5 -> HeaderComplete(f)
                  /\ Widen(HeaderField(f, 32))
                       # WideMul(HeaderField(f, 16), HeaderField(f, 24))
      [] k = 6 -> HeaderComplete(f)
                  /\ U64Less(U64FromNat(Following(f)), HeaderField(f, 32))
      [] k = 7 -> HeaderComplete(f) /\ U64Mod(HeaderField(f, 32), stride(c)) # 0

ErrorOfCheck(k) ==
    CASE k = 1 -> "open_failed"
      [] k = 2 -> "read_failed"
      [] k = 3 -> "invalid_header"
      [] k = 4 -> "schema_mismatch"
      [] k = 5 -> "invalid_header"
      [] k = 6 -> "truncated_payload"
      [] k = 7 -> "payload_size_mismatch"

\* the error of the first failing check, or "ok" when none fails
FirstFailure(c, f) ==
    IF \E k \in 1..7 : CheckFails(c, f, k)
    THEN ErrorOfCheck(CHOOSE k \in 1..7 :
                          /\ CheckFails(c, f, k)
                          /\ \A j \in 1..(k - 1) : ~CheckFails(c, f, j))
    ELSE "ok"

\* C5: read_binary reports the error of the first failing check in the order
\* open, header read, magic, fingerprint and stride, payload_size == stride *
\* record_count, payload read, payload size multiple of stride.  A later defect never masks an earlier
\* one: a wrong magic gives invalid_header whatever else is wrong, and a wrong
\* fingerprint under a right magic gives schema_mismatch whatever else is wrong.
C5_FirstFailingCheck ==
    last.op = "read_binary" =>
        /\ last.res = FirstFailure(Target, File)
        /\ CheckFails(Target, File, 3) => last.res = "invalid_header"
        /\ (HeaderComplete(File) /\ ~CheckFails(Target, File, 3)
              /\ HeaderField(File, 8) # kSchemaHash(Target.schema))
           => last.res = "schema_mismatch"

\* magic, fingerprint and stride of a complete header are those of the target
HeaderIdentifiesTarget(c, f) ==
    /\ HeaderComplete(f)
    /\ ~CheckFails(c, f, 3)
    /\ ~CheckFails(c, f, 4)

\* C6: with magic, fingerprint and stride valid, read_binary returns
\* invalid_header whenever payload_size_bytes differs from the product
\* stride * record_count, for all 64-bit values of the two fields (the product
\* taken exactly, 128 bits wide).
C6_InvalidHeaderOnAnyMismatch ==
    (/\ last.op = "read_binary"
     /\ HeaderIdentifiesTarget(Target, File)
     /\ Widen(HeaderField(File, 32)) # WideMul(HeaderField(File, 16), HeaderField(File, 24)))
    => last.res = "invalid_header"

\* C7: with a fully valid header and payload_size > 0, fewer than payload_size
\* bytes after the header give truncated_payload.
C7_TruncatedPayload ==
    (/\ last.op = "read_binary"
     /\ HeaderIdentifiesTarget(Target, File)
     /\ ~CheckFails(Target, File, 5)
     /\ HeaderField(File, 32) # U64Zero
     /\ U64Less(U64FromNat(Following(File)), HeaderField(File, 32)))
    => last.res = "truncated_payload"

\* the io_error kinds read_binary returns
ReadErrors ==
    {"open_failed", "read_failed", "invalid_header", "schema_mismatch",
     "truncated_payload", "payload_size_mismatch"}

ReadBinaryFailed == last.op = "read_binary" /\ last.res \in ReadErrors

\* C8 as stated: after any read_binary that returns an error the target is in
\* the cleared state, whatever it held before the call.
C8_ClearedAfterError == ReadBinaryFailed => Cleared

\* C8 amended: after a read_binary that returns an error the target is in the
\* cleared state exactly when it was empty before the call.
C8_ClearedOnlyIfEmptyBefore ==
    ReadBinaryFailed => (Cleared <=> size(Target, last.pre) = 0)

\* a failed read_binary on a target that held two records
C8_Witness ==
    /\ ReadBinaryFailed
    /\ size(Target, last.pre) = 2
    /\ ~Cleared

\* C9: a read_binary that returns an error leaves size() and bytes() of the
\* target exactly what they were before the call, for every error kind.
C9_NoSideEffectOnError ==
    ReadBinaryFailed =>
        /\ size(Target, buf) = size(Target, last.pre)
        /\ bytes(Target, buf) = bytes(Target, last.pre)

\* a truncated file read into a target that holds a record with a non-zero byte
C9_Witness ==
    /\ ReadBinaryFailed
    /\ last.res = "truncated_payload"
    /\ size(Target, last.pre) >= 1
    /\ \E i \in 1..byte_size(Target, last.pre) : bytes(Target, last.pre)[i] # 0
    /\ bytes(Target, buf) = bytes(Target, last.pre)

\* the bytes the last decode was given
Stream == last.input

\* the 16 header bytes are there
StreamHeaderComplete(d) == Len(d) >= 16

\* fingerprint or stride of a complete stream header differs from the target's
StreamSchemaMismatch(c, d) ==
    /\ StreamHeaderComplete(d)
    /\ (\/ load_le_u64(Slice(d, 0, 8)) # kSchemaHash(c.schema)
        \/ load_le_u64(Slice(d, 8, 8)) # U64FromNat(stride(c)))

\* the size prefix that follows the 16 header bytes
StreamPrefix(d) ==
    read_bitsery_size_prefix_1b([data |-> d, pos |-> 16, err |-> "NoError"])

\* the header matches the target and the prefix is readable
StreamPrefixRead(c, d) ==
    /\ StreamHeaderComplete(d)
    /\ ~StreamSchemaMismatch(c, d)
    /\ StreamPrefix(d).ok

\* the announced payload length is no multiple of the stride, or above 0x3FFFFFFF
StreamLengthInvalid(c, d) ==
    /\ StreamPrefixRead(c, d)
    /\ (StreamPrefix(d).size % stride(c) # 0 \/ StreamPrefix(d).size > 1073741823)

\* the input ends before the announced payload does
StreamPayloadShort(c, d) ==
    /\ StreamPrefixRead(c, d)
    /\ ~StreamLengthInvalid(c, d)
    /\ Len(d) < StreamPrefix(d).ad.pos + StreamPrefix(d).size

\* one of the failing paths of the decode hook
StreamRejected(c, d) ==
    \/ ~StreamHeaderComplete(d)
    \/ StreamSchemaMismatch(c, d)
    \/ (StreamHeaderComplete(d) /\ ~StreamSchemaMismatch(c, d) /\ ~StreamPrefix(d).ok)
    \/ StreamLengthInvalid(c, d)
    \/ StreamPayloadShort(c, d)

\* C10: the decode hook leaves the target empty on every failing path, whatever
\* it held before: input shorter than the 16 header bytes, fingerprint or
\* stride mismatch, unreadable size prefix, payload length no multiple of the
\* stride or above 0x3FFFFFFF, input ending before the full payload.  Each of
\* these paths signals a reader error; a fingerprint or stride mismatch and an
\* invalid payload length mark the adapter InvalidData.
C10_DecodeFailureLeavesEmpty ==
    last.op = "decode" =>
        /\ last.err # "NoError" => Cleared
        /\ StreamRejected(Target, Stream) => (last.err # "NoError" /\ Cleared)
        /\ StreamSchemaMismatch(Target, Stream) => last.err = "InvalidData"
        /\ StreamLengthInvalid(Target, Stream) => last.err = "InvalidData"

\* the input ends inside the second page of the payload, after the first
\* page was filled, and the target held two records before
C10_Witness ==
    /\ last.op = "decode"
    /\ ~is_vector_storage_policy(Target)
    /\ StreamPayloadShort(Target, Stream)
    /\ Len(Stream) >= StreamPrefix(Stream).ad.pos + kPageBytes(Target)
    /\ StreamPrefix(Stream).size > kPageBytes(Target)
    /\ size(Target, last.pre) = 2
    /\ last.err = "DataOverflow"
    /\ Cleared

(***************************************************************************)
(* Encoding a large Buffer.  A Buffer of a gigabyte cannot be enumerated    *)
(* byte by byte: here the source Buffer is represented by size(), its       *)
(* record count, and the sink by the chunks written to it so far, each with *)
(* its length.  The output branch of the hook is followed call by call.     *)
(***************************************************************************)
\* Buffer::byte_size of a Buffer holding n records
byte_size_of_count(c, n) == n * stride(c)

\* the record counts explored: empty, one record, payloads with a 2-byte and
\* a 4-byte size prefix, the largest payload within the limit, and the
\* two smallest above it
LargeCounts(c) ==
    { 0, 1, 50, 6000,
      k_bitsery_max_payload_bytes \div stride(c),
      (k_bitsery_max_payload_bytes \div stride(c)) + 1,
      (k_bitsery_max_payload_bytes \div stride(c)) + 2 }

\* one chunk written to the sink
Chunk(what, len) == [what |-> what, len |-> len]

\* s.value8b(schema_hash)
value8b_schema_hash(sink) == Append(sink, Chunk("schema_hash", 8))

\* s.value8b(record_size)
value8b_record_size(sink) == Append(sink, Chunk("record_size", 8))

\* s.container1b(payload, maxSize): a payload above maxSize is a runtime
\* error and the call writes nothing; otherwise the size prefix and the
\* payload are written
container1b(sink, n, maxSize) ==
    IF n > maxSize
    THEN [res |-> "error", sink |-> sink]
    ELSE [res |-> "ok",
          sink |-> sink \o <<Chunk("size_prefix", Len(WriteSize(n))), Chunk("payload", n)>>]

\* bitsery::serialize, output branch, the statement after position pc
serialize_output_step(c, n, pc, sink) ==
    IF pc = "bytes"
    THEN [pc |-> "value8b_schema_hash", res |-> "running", sink |-> value8b_schema_hash(sink)]
    ELSE IF pc = "value8b_schema_hash"
    THEN [pc |-> "value8b_record_size", res |-> "running", sink |-> value8b_record_size(sink)]
    ELSE LET r == container1b(sink, byte_size_of_count(c, n), k_bitsery_max_payload_bytes)
         IN  [pc |-> "container1b", res |-> r.res, sink |-> r.sink]

\* a source Buffer of some size, handed to the serializer with an empty sink;
\* payload = buffer.bytes() is taken
InitLarge ==
    /\ cfg \in ConfigPairs
    /\ buf \in LargeCounts(cfg.src)
    /\ wire = <<>>
    /\ origin = NoOrigin
    /\ last = Done("bytes", "running", <<>>, "NoError", <<>>)

EncodeSchemaHash ==
    /\ last.op = "bytes"
    /\ LET r == serialize_output_step(cfg.src, buf, last.op, wire)
       IN  /\ wire' = r.sink
           /\ last' = Done(r.pc, r.res, <<>>, "NoError", <<>>)
    /\ UNCHANGED <<cfg, buf, origin>>

EncodeRecordSize ==
    /\ last.op = "value8b_schema_hash"
    /\ LET r == serialize_output_step(cfg.src, buf, last.op, wire)
       IN  /\ wire' = r.sink
           /\ last' = Done(r.pc, r.res, <<>>, "NoError", <<>>)
    /\ UNCHANGED <<cfg, buf, origin>>

EncodeContainer ==
    /\ last.op = "value8b_record_size"
    /\ LET r == serialize_output_step(cfg.src, buf, last.op, wire)
       IN  /\ wire' = r.sink
           /\ last' = Done(r.pc, r.res, <<>>, "NoError", <<>>)
    /\ UNCHANGED <<cfg, buf, origin>>

NextLarge ==
    \/ EncodeSchemaHash
    \/ EncodeRecordSize
    \/ EncodeContainer

SpecLarge == InitLarge /\ [][NextLarge]_vars

\* the bytes that have reached the sink
SinkBytes == { i \in 1..Len(wire) : wire[i].len > 0 }

\* C11: when the encode of a Buffer whose byte_size() exceeds 0x3FFFFFFF
\* raises its error, nothing has been written: no byte of the fingerprint,
\* of the stride or of the payload has reached the sink.
C11_ErrorBeforeAnyWrite ==
    (last.op = "container1b" /\ last.res = "error") => SinkBytes = {}

\* C12: assign_bytes(payload) returns payload_size_mismatch exactly when
\* payload.size() is no multiple of the stride; for every payload whose length
\* is a multiple of the stride, the empty one included, it succeeds and then
\* size() == payload.size() / stride and bytes() == payload, whatever the
\* buffer held before.
C12_AssignBytesMismatchExactly ==
    last.op = "assign_bytes" =>
        /\ last.res \in {"ok", "payload_size_mismatch"}
        /\ last.res = "payload_size_mismatch" <=> Len(last.input) % stride(Target) # 0
        /\ Len(last.input) % stride(Target) = 0 =>
              /\ size(Target, buf) = Len(last.input) \div stride(Target)
              /\ bytes(Target, buf) = last.input

\* a payload of one record replaces the two different records held before
C12_Witness ==
    /\ last.op = "assign_bytes"
    /\ last.res = "ok"
    /\ size(Target, last.pre) = 2
    /\ Len(last.input) = stride(Target)
    /\ last.input # Slice(bytes(Target, last.pre), 0, stride(Target))
    /\ bytes(Target, buf) = last.input

(***************************************************************************)
(* Schemas as declared: a schema is the sequence of the types of its       *)
(* fields, in declaration order.  A type is a scalar (bool, integer, float, *)
(* enum with its underlying width), a nested record named by its schema, a *)
(* tagged sum (noserde::variant) or an untagged sum (noserde::union_) over *)
(* its alternatives, or a native POD of sizeof w.                           *)
(***************************************************************************)
Ty(kind, w, name, alts) == [kind |-> kind, w |-> w, name |-> name, alts |-> alts]

TBool == Ty("bool", 1, "", <<>>)
TInt(w) == Ty("int", w, "", <<>>)
TFloat(w) == Ty("float", w, "", <<>>)
TEnum(w) == Ty("enum", w, "", <<>>)
TRecord(name) == Ty("record", 0, name, <<>>)
TPod(w) == Ty("pod", w, "", <<>>)
TVariant(alts) == Ty("variant", 0, "", alts)
TUnion(alts) == Ty("union", 0, "", alts)

\* the schema headers of the tests
Fields(name) ==
    CASE name = "Inner" -> <<TInt(2), TBool>>
      [] name = "Pair" -> <<TInt(2), TInt(2)>>
      [] name = "Node" -> <<TBool, TVariant(<<TRecord("Pair"), TInt(8), TFloat(4)>>), TEnum(1)>>
      [] name = "Example" -> <<TBool, TInt(4), TRecord("Inner"),
                               TVariant(<<TInt(4), TFloat(8)>>), TEnum(1)>>
      [] name = "InlineWords" -> <<TInt(4), TInt(4)>>
      [] name = "InlineDemo" -> <<TRecord("Inner"),
                                  TUnion(<<TRecord("InlineWords"), TFloat(8)>>), TInt(1)>>
      [] name = "PodEnvelope" -> <<TPod(12), TVariant(<<TPod(12), TInt(4)>>),
                                   TUnion(<<TPod(12), TInt(4)>>)>>
      [] name = "Vec2D" -> <<TInt(4), TInt(4)>>
      [] name = "DefaultsExample" -> <<TBool, TInt(4), TRecord("Vec2D"),
                                       TVariant(<<TInt(4), TRecord("Vec2D"), TFloat(8)>>),
                                       TUnion(<<TInt(4), TFloat(4), TRecord("Vec2D")>>)>>

RECURSIVE max_size_last(_)
\* fault: the fold keeps the last argument, not the largest
max_size_last(sizes) ==
    IF sizes = <<>> THEN 0
    ELSE IF Len(sizes) = 1 THEN Head(sizes)
    ELSE max_size_last(Tail(sizes))

RECURSIVE max_size_from(_, _)
\* the fold of max_size(first, rest...)
max_size_from(result, rest) ==
    IF rest = <<>> THEN result
    ELSE max_size_from(IF result < Head(rest) THEN Head(rest) ELSE result, Tail(rest))

\* max_size(...)
max_size(sizes) == IF sizes = <<>> THEN 0 ELSE max_size_from(Head(sizes), Tail(sizes))

RECURSIVE wire_sizeof(_), field_wire_size(_), layout_from(_, _, _, _)

\* the generated __layout of a field list: each field's offset is the running
\* sum of the wire sizes before it; a tagged sum has its tag at the field's
\* offset and its payload 4 bytes later
layout_from(fields, i, offset, acc) ==
    IF i > Len(fields) THEN [stride |-> offset, fields |-> acc]
    ELSE LET t == fields[i]
             sz == field_wire_size(t)
             tagged == t.kind = "variant"
         IN  layout_from(fields, i + 1, offset + sz,
                         Append(acc, [offset |-> offset,
                                      size |-> sz,
                                      tag_offset |-> IF tagged THEN offset ELSE -1,
                                      payload_offset |-> IF tagged THEN offset + 4 ELSE offset,
                                      payload_size |-> IF tagged THEN sz - 4 ELSE sz]))

layout(fields) == layout_from(fields, 1, 0, <<>>)

\* T::noserde_size_bytes of a generated record
noserde_size_bytes(name) == layout(Fields(name)).stride

\* wire_sizeof<T>()
wire_sizeof(t) ==
    IF t.kind = "bool" THEN 1
    ELSE IF t.kind = "enum" THEN t.w
    ELSE IF t.kind = "int" \/ t.kind = "float" THEN t.w
    ELSE IF t.kind = "record" THEN noserde_size_bytes(t.name)
    ELSE t.w

\* the alternatives' wire sizes, in declaration order
alt_sizes(t) == [j \in 1..Len(t.alts) |-> wire_sizeof(t.alts[j])]

\* the wire size of a field: a sum takes the largest alternative, a tagged
\* sum 4 bytes of discriminant before it
field_wire_size(t) ==
    IF t.kind = "variant" THEN 4 + max_size(alt_sizes(t))
    ELSE IF t.kind = "union" THEN max_size(alt_sizes(t))
    ELSE wire_sizeof(t)

(***************************************************************************)
(* The layout of any schema: a field list is drawn, its layout computed.   *)
(* cfg holds the declaration and buf the layout.                            *)
(***************************************************************************)
MaxFields == 2

FieldTypes ==
    { TBool, TInt(1), TInt(2), TInt(4), TInt(8), TFloat(4), TFloat(8), TEnum(1), TEnum(2),
      TRecord("Inner"), TRecord("Pair"), TRecord("Node"), TRecord("InlineDemo"), TPod(12),
      TVariant(<<TRecord("Pair"), TInt(8), TFloat(4)>>),
      TVariant(<<TInt(4), TFloat(8)>>),
      TVariant(<<TPod(12), TInt(4)>>),
      TUnion(<<TRecord("InlineWords"), TFloat(8)>>),
      TUnion(<<TInt(4), TFloat(4), TRecord("Pair")>>) }

Declarations == UNION { [1..n -> FieldTypes] : n \in 1..MaxFields }

InitLayout ==
    /\ cfg \in Declarations
    /\ buf = <<>>
    /\ wire = NoFile
    /\ origin = NoOrigin
    /\ last = Done("init", "ok", <<>>, "NoError", <<>>)

\* the generator lays the schema out
GenerateLayout ==
    /\ last.op = "init"
    /\ buf' = layout(cfg)
    /\ last' = Done("layout", "ok", <<>>, "NoError", buf)
    /\ UNCHANGED <<cfg, wire, origin>>

NextLayout == GenerateLayout

SpecLayout == InitLayout /\ [][NextLayout]_vars

\* the largest member of a non-empty set of naturals
Largest(S) == CHOOSE m \in S : \A x \in S : x <= m

RECURSIVE WireSizeAsStated(_)
\* the wire sizes as the layout rules state them
WireSizeAsStated(t) ==
    CASE t.kind = "bool" -> 1
      [] t.kind \in {"int", "float", "enum", "pod"} -> t.w
      [] t.kind = "record" -> noserde_size_bytes(t.name)
      [] t.kind = "union" ->
            Largest({ WireSizeAsStated(t.alts[j]) : j \in 1..Len(t.alts) })
      [] t.kind = "variant" ->
            4 + Largest({ WireSizeAsStated(t.alts[j]) : j \in 1..Len(t.alts) })

RECURSIVE SizesBefore(_, _)
\* the sum of the stated wire sizes of the first n fields
SizesBefore(fields, n) ==
    IF n = 0 THEN 0 ELSE SizesBefore(fields, n - 1) + WireSizeAsStated(fields[n])

\* the fields whose byte range holds byte b
FieldsAt(L, b) ==
    { i \in 1..Len(L.fields) : L.fields[i].offset <= b /\ b < L.fields[i].offset + L.fields[i].size }

\* C13: the first field is at offset 0 and each later field at the sum of the
\* wire sizes of the fields declared before it; the stride is the sum of all
\* wire sizes, so the fields' byte ranges are disjoint and cover [0, stride).
\* Wire sizes: bool 1, integer and float the width, enum the underlying
\* width, nested record its stride, untagged sum the largest alternative,
\* tagged sum 4 plus the largest alternative with the payload 4 bytes after
\* the tag.
C13_LayoutIsRunningSum ==
    last.op = "layout" =>
        /\ Len(buf.fields) = Len(cfg)
        /\ buf.fields[1].offset = 0
        /\ \A i \in 1..Len(cfg) :
              /\ buf.fields[i].offset = SizesBefore(cfg, i - 1)
              /\ buf.fields[i].size = WireSizeAsStated(cfg[i])
              /\ cfg[i].kind = "variant" =>
                    /\ buf.fields[i].tag_offset = buf.fields[i].offset
                    /\ buf.fields[i].payload_offset = buf.fields[i].tag_offset + 4
                    /\ buf.fields[i].payload_size = WireSizeAsStated(cfg[i]) - 4
              /\ cfg[i].kind = "union" =>
                    /\ buf.fields[i].payload_offset = buf.fields[i].offset
                    /\ buf.fields[i].payload_size = WireSizeAsStated(cfg[i])
        /\ buf.stride = SizesBefore(cfg, Len(cfg))
        /\ \A b \in 0..(buf.stride - 1) : Cardinality(FieldsAt(buf, b)) = 1

\* a tagged sum over a record, a 64-bit integer and a float laid out after a
\* bool: tag at the odd offset 1, 8 bytes of payload from offset 5
C13_Witness ==
    /\ last.op = "layout"
    /\ cfg = <<TBool, TVariant(<<TRecord("Pair"), TInt(8), TFloat(4)>>)>>
    /\ buf.fields[2].tag_offset = 1
    /\ buf.fields[2].payload_offset = 5
    /\ buf.fields[2].payload_size = 8
    /\ buf.stride = 13

(***************************************************************************)
(* The endian codec on either host.  An unsigned value of w bytes is the   *)
(* sequence of its w base-256 digits, most significant first; a value of a *)
(* signed, enum or floating type is given by its bit pattern, which is     *)
(* what memcpy and bit_cast carry into the unsigned type.  An object in    *)
(* memory holds its digits low byte first on a little-endian host and high *)
(* byte first on a big-endian host.                                         *)
(***************************************************************************)
RECURSIVE BitAnd(_, _)
BitAnd(a, b) ==
    IF a = 0 \/ b = 0 THEN 0
    ELSE 2 * BitAnd(a \div 2, b \div 2) + (IF a % 2 = 1 /\ b % 2 = 1 THEN 1 ELSE 0)

RECURSIVE BitOr(_, _)
BitOr(a, b) ==
    IF a = 0 THEN b
    ELSE IF b = 0 THEN a
    ELSE 2 * BitOr(a \div 2, b \div 2) + (IF a % 2 = 1 \/ b % 2 = 1 THEN 1 ELSE 0)

\* value & mask, value | other, on unsigned values of one width
And(v, m) == [i \in 1..Len(v) |-> BitAnd(v[i], m[i])]
Or(a, b) == [i \in 1..Len(a) |-> BitOr(a[i], b[i])]

\* value << 8k and value >> 8k, truncated to the width
Shl(v, k) == SubSeq(v, k + 1, Len(v)) \o Zeros(k)
Shr(v, k) == Zeros(k) \o SubSeq(v, 1, Len(v) - k)

\* the constant 0xff << 8k of width w
ByteMask(w, k) == [i \in 1..w |-> IF i = w - k THEN 255 ELSE 0]

\* fault: the four-byte swap exchanges the outer bytes only, and the
\* two-byte swap shifts both halves the same way
byteswap_unsigned_outer(value) ==
    IF Len(value) = 1 THEN value
    ELSE IF Len(value) = 2
    THEN Or(Shl(And(value, ByteMask(2, 0)), 1), Shl(And(value, ByteMask(2, 1)), 1))
    ELSE IF Len(value) = 4
    THEN Or(Or(Shl(And(value, ByteMask(4, 0)), 3), And(value, ByteMask(4, 1))),
            Or(And(value, ByteMask(4, 2)), Shr(And(value, ByteMask(4, 3)), 3)))
    ELSE Or(Or(Or(Shl(And(value, ByteMask(8, 0)), 7), Shl(And(value, ByteMask(8, 1)), 5)),
               Or(Shl(And(value, ByteMask(8, 2)), 3), Shl(And(value, ByteMask(8, 3)), 1))),
            Or(Or(Shr(And(value, ByteMask(8, 4)), 1), Shr(And(value, ByteMask(8, 5)), 3)),
               Or(Shr(And(value, ByteMask(8, 6)), 5), Shr(And(value, ByteMask(8, 7)), 7))))

\* detail::byteswap_unsigned
byteswap_unsigned(value) ==
    IF Len(value) = 1 THEN value
    ELSE IF Len(value) = 2
    THEN Or(Shl(And(value, ByteMask(2, 0)), 1), Shr(And(value, ByteMask(2, 1)), 1))
    ELSE IF Len(value) = 4
    THEN Or(Or(Shl(And(value, ByteMask(4, 0)), 3), Shl(And(value, ByteMask(4, 1)), 1)),
            Or(Shr(And(value, ByteMask(4, 2)), 1), Shr(And(value, ByteMask(4, 3)), 3)))
    ELSE Or(Or(Or(Shl(And(value, ByteMask(8, 0)), 7), Shl(And(value, ByteMask(8, 1)), 5)),
               Or(Shl(And(value, ByteMask(8, 2)), 3), Shl(And(value, ByteMask(8, 3)), 1))),
            Or(Or(Shr(And(value, ByteMask(8, 4)), 1), Shr(And(value, ByteMask(8, 5)), 3)),
               Or(Shr(And(value, ByteMask(8, 6)), 5), Shr(And(value, ByteMask(8, 7)), 7))))

\* detail::host_to_le
host_to_le(host, value) == IF host = "little" THEN value ELSE byteswap_unsigned(value)

\* fault: the load side never swaps
le_to_host_never_swaps(host, value) == value

\* detail::le_to_host
le_to_host(host, value) == IF host = "little" THEN value ELSE byteswap_unsigned(value)

\* memcpy(ptr, &object, sizeof) and memcpy(&object, ptr, sizeof)
ObjectBytes(host, value) == IF host = "little" THEN Rev(value) ELSE value
ObjectAt(host, bs) == IF host = "little" THEN Rev(bs) ELSE bs

\* store_le<T>(ptr, value): the bytes written at ptr.  A bool is TRUE or
\* FALSE; any other value is its bit pattern
store_le(host, t, value) ==
    IF t.kind = "bool" THEN <<IF value THEN 1 ELSE 0>>
    ELSE IF t.kind = "pod" THEN value
    ELSE LET native == value
             w == host_to_le(host, native)
         IN  ObjectBytes(host, w)

\* load_le<T>(ptr), bs being the sizeof(T) bytes at ptr
load_le(host, t, bs) ==
    IF t.kind = "bool" THEN bs[1] # 0
    ELSE IF t.kind = "pod" THEN bs
    ELSE LET value == ObjectAt(host, bs)
         IN  le_to_host(host, value)

\* scalar_ref<T>::operator=(T) and scalar_cref<T>::operator T()
scalar_ref_assign(host, t, mem, at, value) == Patch(mem, at, store_le(host, t, value))
scalar_cref_value(host, t, mem, at) == load_le(host, t, Slice(mem, at, wire_sizeof(t)))

\* the bit pattern of the integer n in w bytes (two's complement), |n| < 2^31
RECURSIVE PatternOfNat(_, _)
PatternOfNat(w, n) == IF w = 0 THEN <<>> ELSE Append(PatternOfNat(w - 1, n \div 256), n % 256)
PatternOf(w, n) ==
    IF n >= 0 THEN PatternOfNat(w, n)
    ELSE [i \in 1..w |-> 255 - PatternOfNat(w, (0 - n) - 1)[i]]

\* the scalar types, and for each the values tried: every value of the
\* one-byte types, and for the wider ones the patterns at the ends of the
\* range, around the sign bit and with all bytes distinct
ScalarTypes ==
    { TBool, TInt(1), TInt(2), TInt(4), TInt(8), TEnum(1), TEnum(2), TFloat(4), TFloat(8) }

ValuesOf(t) ==
    IF t.kind = "bool" THEN BOOLEAN
    ELSE IF t.w = 1 THEN { <<b>> : b \in 0..255 }
    ELSE IF t.w = 2
    THEN { PatternOf(2, n) : n \in {0, 1, 255, 256, 4660, 32767, -32768, -2, -1, -23} }
    ELSE IF t.w = 4
    THEN { PatternOf(4, n) : n \in {0, 1, 7, 305419896, 2147483647, -2147483647, -1, -55} }
            \cup { <<128, 0, 0, 0>>, <<63, 128, 0, 0>>, <<127, 192, 0, 1>>, <<202, 254, 186, 190>> }
    ELSE { PatternOf(8, n) : n \in {0, 1, -1, -22, 305419896} }
            \cup { <<17, 34, 51, 68, 85, 102, 119, 136>>, <<128, 0, 0, 0, 0, 0, 0, 0>>,
                   <<63, 248, 0, 0, 0, 0, 0, 0>>, <<192, 4, 0, 0, 0, 0, 0, 0>>,
                   <<127, 248, 0, 0, 0, 0, 0, 1>>, <<170, 187, 204, 221, 238, 255, 0, 17>> }

\* what the memory held before: zeros, or bytes written earlier
Memories == { Zeros(10), <<2, 255, 1, 128, 7, 0, 64, 90, 165, 3>> }

\* cfg is the host and the scalar type, buf the memory under the views
InitCodec ==
    /\ cfg \in [host : {"little", "big"}, type : ScalarTypes]
    /\ buf \in Memories
    /\ wire = NoFile
    /\ origin = NoOrigin
    /\ last = Done("init", "ok", <<>>, "NoError", <<>>)

\* scalar_ref<T>(ptr + at) = value
ScalarAssign ==
    \E at \in 0..2, value \in ValuesOf(cfg.type) :
        /\ last.op = "init"
        /\ buf' = scalar_ref_assign(cfg.host, cfg.type, buf, at, value)
        /\ last' = Done("assign", "ok", [at |-> at, value |-> value], "NoError", buf)
        /\ UNCHANGED <<cfg, wire, origin>>

\* static_cast<T>(scalar_cref<T>(ptr + at)), at the place last assigned
ScalarRead ==
    /\ last.op = "assign"
    /\ last' = Done("read", scalar_cref_value(cfg.host, cfg.type, buf, last.input.at),
                    last.input, "NoError", last.pre)
    /\ UNCHANGED <<cfg, buf, wire, origin>>

\* static_cast<T>(scalar_cref<T>(ptr + at)) over bytes no scalar_ref<T> wrote
ScalarReadRaw ==
    \E at \in 0..2 :
        /\ last.op = "init"
        /\ last' = Done("read_raw", scalar_cref_value(cfg.host, cfg.type, buf, at),
                        [at |-> at, value |-> Slice(buf, at, wire_sizeof(cfg.type))],
                        "NoError", buf)
        /\ UNCHANGED <<cfg, buf, wire, origin>>

NextCodec ==
    \/ ScalarAssign
    \/ ScalarRead
    \/ ScalarReadRaw

SpecCodec == InitCodec /\ [][NextCodec]_vars

\* C18: for every scalar type and value, at any byte offset, aligned or not,
\* store_le followed by load_le at the same place returns the value bit for
\* bit: what a scalar_cref reads is what the scalar_ref was assigned.
C18_ScalarRoundTrip ==
    last.op = "read" => last.res = last.input.value

\* a 64-bit pattern with all bytes distinct, assigned and read back at the
\* odd offset 1 on a big-endian host
C18_Witness ==
    /\ last.op = "read"
    /\ cfg.host = "big"
    /\ cfg.type = TInt(8)
    /\ last.input = [at |-> 1, value |-> <<17, 34, 51, 68, 85, 102, 119, 136>>]
    /\ last.res = <<17, 34, 51, 68, 85, 102, 119, 136>>

\* the bytes the last assignment wrote
Written == Slice(buf, last.input.at, wire_sizeof(cfg.type))

\* C19: store_le writes byte k of a w-byte integer as (u >> 8k) & 0xFF, u
\* being the value's two's-complement bit pattern, on little-endian and on
\* big-endian hosts alike (int16 -2 is FE FF, uint32 0x12345678 is
\* 78 56 34 12); a bool is written as 01 or 00 and any non-zero byte loads as
\* true; an enum is written as its underlying integer.
C19_WireByteOrder ==
    /\ (last.op = "assign" /\ cfg.type.kind = "bool") =>
          Written = (IF last.input.value THEN <<1>> ELSE <<0>>)
    /\ (last.op = "assign" /\ cfg.type.kind \in {"int", "enum"}) =>
          /\ \A k \in 0..(cfg.type.w - 1) : Written[k + 1] = last.input.value[cfg.type.w - k]
          /\ cfg.type.w <= 2 =>
                \A k \in 0..(cfg.type.w - 1) :
                    Written[k + 1] =
                        (DigitsValue(last.input.value, 1, 0) \div (IF k = 0 THEN 1 ELSE 256)) % 256
          /\ Written = store_le(cfg.host, TInt(cfg.type.w), last.input.value)
          /\ (cfg.type.w = 2 /\ last.input.value = PatternOf(2, -2)) => Written = <<254, 255>>
          /\ (cfg.type.w = 4 /\ last.input.value = PatternOf(4, 305419896)) =>
                Written = <<120, 86, 52, 18>>
    /\ (last.op = "read_raw" /\ cfg.type.kind = "bool") =>
          (last.res <=> last.input.value # <<0>>)

\* uint32 0x12345678 written at the odd offset 1 on a big-endian host
C19_Witness ==
    /\ last.op = "assign"
    /\ cfg.host = "big"
    /\ cfg.type = TInt(4)
    /\ last.input = [at |-> 1, value |-> <<18, 52, 86, 120>>]
    /\ Slice(buf, 1, 4) = <<120, 86, 52, 18>>

(***************************************************************************)
(* Field views of a generated record.  A view carries a byte pointer and   *)
(* nothing else: what it reads is a function of the record's bytes.  The   *)
(* views act on record rec of the Buffer, at base rec * stride, through    *)
(* the schema's layout.  Values are given by their wire bytes.              *)
(***************************************************************************)
\* fault: one byte fewer is cleared
zero_bytes_short(mem, at, count) ==
    IF count = 0 THEN mem ELSE Patch(mem, at, Zeros(count - 1))

\* fault: the zeroing starts one byte early
zero_bytes_early(mem, at, count) ==
    IF at = 0 THEN Patch(mem, at, Zeros(count)) ELSE Patch(mem, at - 1, Zeros(count))

\* zero_bytes(ptr, count)
zero_bytes(mem, at, count) == Patch(mem, at, Zeros(count))

\* fault: positions are counted from one
position_from_one(j) == j

\* the discriminant of the j-th declared alternative, j = 1..k: the first
\* alternative has index() == 0
position(j) == j - 1

\* the generated records and their __layout constants
GeneratedRecords ==
    {"Inner", "Pair", "Node", "Example", "InlineWords", "InlineDemo", "PodEnvelope",
     "Vec2D", "DefaultsExample"}
Layouts == [schema \in GeneratedRecords |-> layout(Fields(schema))]

\* the __layout entry of field f of a schema
FieldLayout(schema, f) == Layouts[schema].fields[f]

\* variant_ref::index(): the 32-bit discriminant at the tag offset
variant_index(schema, mem, base, f) ==
    load_le("little", TInt(4), Slice(mem, base + FieldLayout(schema, f).tag_offset, 4))

\* variant_ref::holds_alternative<Alt_j>()
holds_alternative(schema, mem, base, f, j) ==
    variant_index(schema, mem, base, f) = PatternOf(4, position(j))

\* variant_ref::get_if<Alt_j>(): not present, or a view over the payload,
\* given by the bytes it reads
get_if(schema, mem, base, f, j) ==
    IF holds_alternative(schema, mem, base, f, j)
    THEN [present |-> TRUE,
          bytes |-> Slice(mem, base + FieldLayout(schema, f).payload_offset,
                          wire_sizeof(Fields(schema)[f].alts[j]))]
    ELSE [present |-> FALSE, bytes |-> <<>>]

\* variant_ref::visit(f): the alternative f is invoked with, by its position
\* in the declaration; 0 when the discriminant names none
visit(schema, mem, base, f) ==
    LET held == { j \in 1..Len(Fields(schema)[f].alts) : holds_alternative(schema, mem, base, f, j) }
    IN  IF held = {} THEN 0 ELSE CHOOSE j \in held : TRUE

\* variant_ref::emplace<Alt_j>(value): the discriminant is written, the
\* payload region zeroed, the alternative written at the payload offset
variant_emplace(schema, mem, base, f, j, value) ==
    LET L == FieldLayout(schema, f)
        tagged == Patch(mem, base + L.tag_offset, store_le("little", TInt(4), PatternOf(4, position(j))))
        zeroed == zero_bytes(tagged, base + L.payload_offset, L.payload_size)
    IN  Patch(zeroed, base + L.payload_offset, value)

\* union_ref::as<Alt_j>(): a view over the payload, whatever was written
union_as(schema, mem, base, f, j) ==
    Slice(mem, base + FieldLayout(schema, f).payload_offset, wire_sizeof(Fields(schema)[f].alts[j]))

\* union_ref::emplace<Alt_j>(value): the payload region is zeroed, then the
\* alternative written
union_emplace(schema, mem, base, f, j, value) ==
    LET L == FieldLayout(schema, f)
        zeroed == zero_bytes(mem, base + L.payload_offset, L.payload_size)
    IN  Patch(zeroed, base + L.payload_offset, value)

\* the values tried for an alternative or a scalar field, as wire bytes
WireValues(t) ==
    IF t = TRecord("Pair")
    THEN { Zeros(4), store_le("little", TInt(2), PatternOf(2, 11))
                         \o store_le("little", TInt(2), PatternOf(2, -12)) }
    ELSE IF t = TRecord("InlineWords")
    THEN { store_le("little", TInt(4), <<17, 34, 51, 68>>)
               \o store_le("little", TInt(4), <<85, 102, 119, 136>>) }
    ELSE IF t = TInt(8) THEN { store_le("little", t, <<170, 187, 204, 221, 238, 255, 0, 17>>) }
    ELSE IF t = TFloat(8) THEN { store_le("little", t, <<63, 248, 0, 0, 0, 0, 0, 1>>) }
    ELSE IF t = TFloat(4) THEN { store_le("little", t, <<64, 80, 0, 0>>) }
    ELSE IF t = TInt(4) THEN { store_le("little", t, PatternOf(4, -55)) }
    ELSE IF t = TBool THEN { store_le("little", t, TRUE) }
    ELSE { store_le("little", t, [i \in 1..t.w |-> 170 + i]) }

\* the fields of a schema that are of the kinds given
FieldsOfKind(schema, kinds) ==
    { f \in 1..Len(Fields(schema)) : Fields(schema)[f].kind \in kinds }

\* the Buffer instantiations of the view tests
ViewConfigs ==
    { [src |-> Instance("Node", 1, "segmented"), dst |-> Instance("Node", 1, "segmented")],
      [src |-> Instance("Example", 2, "segmented"), dst |-> Instance("Example", 2, "segmented")],
      [src |-> Instance("InlineDemo", 1, "segmented"),
       dst |-> Instance("InlineDemo", 256, "vector")],
      [src |-> Instance("PodEnvelope", 256, "vector"),
       dst |-> Instance("PodEnvelope", 256, "vector")] }

InitViews ==
    /\ cfg \in ViewConfigs
    /\ buf = <<>>
    /\ wire = NoFile
    /\ origin = NoOrigin
    /\ last = Done("init", "ok", <<>>, "NoError", <<>>)

\* what a view operation acted on
On(rec, f, j, value) == [rec |-> rec, field |-> f, alt |-> j, value |-> value]

\* the record the views act on: the one appended last
LastRecord == { r \in {size(cfg.dst, buf) - 1} : r >= 0 }

\* buffer[rec].field = value, for a one-byte scalar field
AssignField ==
    \E rec \in LastRecord :
        \E f \in { g \in FieldsOfKind(cfg.dst.schema, {"bool", "int", "enum"}) :
                       Fields(cfg.dst.schema)[g].w = 1 } :
            \E value \in WireValues(Fields(cfg.dst.schema)[f]) :
                /\ buf' = Patch(buf, rec * stride(cfg.dst) + FieldLayout(cfg.dst.schema, f).offset, value)
                /\ last' = Done("assign_field", "ok", On(rec, f, 0, value), "NoError", buf)
                /\ UNCHANGED <<cfg, wire, origin>>

\* buffer[rec].field.emplace<Alt_j>(value), for a tagged sum
VariantEmplace ==
    \E rec \in LastRecord :
        \E f \in FieldsOfKind(cfg.dst.schema, {"variant"}) :
            \E j \in 1..Len(Fields(cfg.dst.schema)[f].alts) :
                \E value \in WireValues(Fields(cfg.dst.schema)[f].alts[j]) :
                    /\ buf' = variant_emplace(cfg.dst.schema, buf, rec * stride(cfg.dst), f, j, value)
                    /\ last' = Done("variant_emplace", "ok", On(rec, f, j, value), "NoError", buf)
                    /\ UNCHANGED <<cfg, wire, origin>>

\* buffer[rec].field.emplace<Alt_j>(value), for an untagged sum
UnionEmplace ==
    \E rec \in LastRecord :
        \E f \in FieldsOfKind(cfg.dst.schema, {"union"}) :
            \E j \in 1..Len(Fields(cfg.dst.schema)[f].alts) :
                \E value \in WireValues(Fields(cfg.dst.schema)[f].alts[j]) :
                    /\ buf' = union_emplace(cfg.dst.schema, buf, rec * stride(cfg.dst), f, j, value)
                    /\ last' = Done("union_emplace", "ok", On(rec, f, j, value), "NoError", buf)
                    /\ UNCHANGED <<cfg, wire, origin>>

NextViews ==
    \/ EmplaceBack
    \/ Clear
    \/ AssignField
    \/ VariantEmplace
    \/ UnionEmplace

SpecViews == InitViews /\ [][NextViews]_vars

\* the record the last view operation acted on, and the sum field in it
ViewSchema == Target.schema
ViewBase == last.input.rec * stride(Target)
ViewField == last.input.field
Alternatives == 1..Len(Fields(ViewSchema)[ViewField].alts)
TagBytes == Slice(buf, ViewBase + FieldLayout(ViewSchema, ViewField).tag_offset, 4)
PayloadRegion(mem) ==
    Slice(mem, ViewBase + FieldLayout(ViewSchema, ViewField).payload_offset,
          FieldLayout(ViewSchema, ViewField).payload_size)

\* C14: for a tagged sum over A_0, ..., A_(k-1) in declaration order, after
\* emplace<A_i>(v): index() == i, the 4 tag bytes are the little-endian
\* encoding of i (first alternative 00 00 00 00, second 01 00 00 00),
\* holds_alternative<A_i>() is true, get_if<A_i>() yields a view that reads v,
\* and get_if<A_j>() is not-present for every other j.
C14_TaggedEmplace ==
    last.op = "variant_emplace" =>
        LET i == last.input.alt - 1
        IN  /\ variant_index(ViewSchema, buf, ViewBase, ViewField) = <<0, 0, 0, i>>
            /\ TagBytes = <<i, 0, 0, 0>>
            /\ holds_alternative(ViewSchema, buf, ViewBase, ViewField, last.input.alt)
            /\ get_if(ViewSchema, buf, ViewBase, ViewField, last.input.alt)
                  = [present |-> TRUE, bytes |-> last.input.value]
            /\ \A j \in Alternatives \ {last.input.alt} :
                  ~get_if(ViewSchema, buf, ViewBase, ViewField, j).present

\* the second alternative of Node's payload, a 64-bit integer, emplaced in
\* the second record of the Buffer
C14_Witness ==
    /\ last.op = "variant_emplace"
    /\ ViewSchema = "Node"
    /\ last.input.rec = 1
    /\ last.input.alt = 2
    /\ TagBytes = <<1, 0, 0, 0>>
    /\ get_if(ViewSchema, buf, ViewBase, ViewField, 2).bytes = <<17, 0, 255, 238, 221, 204, 187, 170>>

\* the records of the Buffer and the tagged sums of its schema
Records == 0..(size(Target, buf) - 1)
TaggedSums == FieldsOfKind(Target.schema, {"variant"})

\* the discriminant of tagged sum f of record r, as a number
Discriminant(r, f) ==
    DigitsValue(variant_index(Target.schema, buf, r * stride(Target), f), 1, 0)

\* tagged sum f of record r holds no alternative: holds_alternative is false
\* and get_if not-present for every alternative, visit receives the sentinel
HoldsNone(r, f) ==
    /\ \A j \in 1..Len(Fields(Target.schema)[f].alts) :
          /\ ~holds_alternative(Target.schema, buf, r * stride(Target), f, j)
          /\ ~get_if(Target.schema, buf, r * stride(Target), f, j).present
    /\ visit(Target.schema, buf, r * stride(Target), f) = 0

\* tagged sum f of record r holds its j-th declared alternative and no other
HoldsOnly(r, f, j) ==
    /\ holds_alternative(Target.schema, buf, r * stride(Target), f, j)
    /\ get_if(Target.schema, buf, r * stride(Target), f, j).present
    /\ \A o \in 1..Len(Fields(Target.schema)[f].alts) \ {j} :
          /\ ~holds_alternative(Target.schema, buf, r * stride(Target), f, o)
          /\ ~get_if(Target.schema, buf, r * stride(Target), f, o).present
    /\ visit(Target.schema, buf, r * stride(Target), f) = j

\* C15 as stated: wire discriminant 0 denotes "empty" (no alternative held,
\* visit receives the monostate sentinel) and discriminants 1..k denote the k
\* alternatives in declaration order; a freshly zeroed record's tagged sum
\* holds no alternative.
C15_ZeroDiscriminantIsEmpty ==
    /\ \A r \in Records : \A f \in TaggedSums :
          /\ Discriminant(r, f) = 0 => HoldsNone(r, f)
          /\ Discriminant(r, f) \in 1..Len(Fields(Target.schema)[f].alts) =>
                HoldsOnly(r, f, Discriminant(r, f))
    /\ last.op = "variant_emplace" => Discriminant(last.input.rec, last.input.field) = last.input.alt
    /\ last.op = "emplace_back" =>
          \A f \in TaggedSums : HoldsNone(size(Target, buf) - 1, f)

\* C15, amended: wire discriminants 0..k-1 denote the k alternatives in
\* declaration order and none denotes "empty": with discriminant d the sum
\* holds its (d+1)-th alternative and no other, and visit receives that
\* alternative's view; with discriminant 0, as in a freshly zeroed record,
\* it holds the first alternative.
C15_DiscriminantIsPosition ==
    /\ \A r \in Records : \A f \in TaggedSums :
          /\ Discriminant(r, f) \in 0..(Len(Fields(Target.schema)[f].alts) - 1)
          /\ HoldsOnly(r, f, Discriminant(r, f) + 1)
    /\ last.op = "variant_emplace" =>
          Discriminant(last.input.rec, last.input.field) = last.input.alt - 1
    /\ last.op = "emplace_back" =>
          \A f \in TaggedSums :
              /\ Discriminant(size(Target, buf) - 1, f) = 0
              /\ HoldsOnly(size(Target, buf) - 1, f, 1)

\* a Node appended to a Buffer whose first Node holds a float: the new
\* record's payload has discriminant 0 and get_if<Pair>() is present
C15_Witness ==
    /\ last.op = "emplace_back"
    /\ Target.schema = "Node"
    /\ size(Target, buf) = 2
    /\ Discriminant(0, 2) = 2
    /\ Discriminant(1, 2) = 0
    /\ get_if("Node", buf, stride(Target), 2, 1) = [present |-> TRUE, bytes |-> Zeros(4)]

\* the last operation wrote an alternative of a sum, tagged or untagged
SumEmplaced == last.op \in {"variant_emplace", "union_emplace"}

\* the bytes of a payload region past the first n
PastFirst(region, n) == SubSeq(region, n + 1, Len(region))

\* C16: for every sum field, tagged or untagged, after emplace<Alt_j>(w),
\* whatever alternative was emplaced before, every byte of the payload
\* region outside the first wire_size(Alt_j) bytes is 0x00: no byte of the
\* earlier alternative survives.
C16_PayloadZeroedOnSwitch ==
    SumEmplaced =>
        LET w == wire_sizeof(Fields(ViewSchema)[ViewField].alts[last.input.alt])
        IN  /\ Slice(PayloadRegion(buf), 0, w) = last.input.value
            /\ \A i \in 1..Len(PayloadRegion(buf)) : i > w => PayloadRegion(buf)[i] = 0

\* Node's payload switched from the 64-bit integer 0xAABBCCDDEEFF0011 to a
\* Pair: the four bytes past the Pair held DD CC BB AA and are zero now
C16_Witness ==
    /\ last.op = "variant_emplace"
    /\ ViewSchema = "Node"
    /\ PayloadRegion(last.pre) = <<17, 0, 255, 238, 221, 204, 187, 170>>
    /\ last.input.alt = 1
    /\ PastFirst(PayloadRegion(buf), 4) = Zeros(4)

\* the bytes as<Alt_j>() reads after an emplace of value: the payload region,
\* value followed by zeros, cut to Alt_j's wire size
Reinterpreted(value, j) ==
    SubSeq(value \o Zeros(FieldLayout(ViewSchema, ViewField).payload_size),
           1, wire_sizeof(Fields(ViewSchema)[ViewField].alts[j]))

\* the positions of the Buffer's bytes outside the payload region acted on
OutsidePayload ==
    { i \in 1..Len(buf) :
        \/ i <= ViewBase + FieldLayout(ViewSchema, ViewField).payload_offset
        \/ i > ViewBase + FieldLayout(ViewSchema, ViewField).payload_offset
                 + FieldLayout(ViewSchema, ViewField).payload_size }

\* C17: for an untagged sum, as<Alt>() yields a view for every alternative
\* whatever was written last, and emplace stores no discriminant: after
\* emplace<A>(v), as<A>() reads v, as<B>() of any other alternative B reads
\* the same payload bytes (A's wire bytes followed by zeros), and no byte
\* outside the payload region is changed.
C17_UntaggedSum ==
    /\ \A r \in Records : \A f \in FieldsOfKind(Target.schema, {"union"}) :
          \A j \in 1..Len(Fields(Target.schema)[f].alts) :
              Len(union_as(Target.schema, buf, r * stride(Target), f, j))
                  = wire_sizeof(Fields(Target.schema)[f].alts[j])
    /\ last.op = "union_emplace" =>
          /\ union_as(ViewSchema, buf, ViewBase, ViewField, last.input.alt) = last.input.value
          /\ \A j \in Alternatives :
                union_as(ViewSchema, buf, ViewBase, ViewField, j) = Reinterpreted(last.input.value, j)
          /\ Len(buf) = Len(last.pre)
          /\ \A i \in OutsidePayload : buf[i] = last.pre[i]

\* PodEnvelope's raw held a 12-byte vector and a 32-bit integer is emplaced:
\* as<fvec3>() reads the integer's 4 bytes followed by 8 zeros, and the
\* vector held by the tagged sum next to it is untouched
C17_Witness ==
    /\ last.op = "union_emplace"
    /\ ViewSchema = "PodEnvelope"
    /\ last.input.alt = 2
    /\ \A i \in 1..12 : PayloadRegion(last.pre)[i] # 0
    /\ union_as(ViewSchema, buf, ViewBase, ViewField, 1) = last.input.value \o Zeros(8)
    /\ get_if(ViewSchema, buf, ViewBase, 2, 1).present
    /\ get_if(ViewSchema, buf, ViewBase, 2, 1).bytes = get_if(ViewSchema, last.pre, ViewBase, 2, 1).bytes
    /\ get_if(ViewSchema, buf, ViewBase, 2, 1).bytes # Zeros(12)

\* C20: emplace_back increases size() by exactly 1 and leaves the appended
\* stride bytes all 0x00 for a schema without declared defaults, whatever the
\* Buffer held earlier (records since dropped by clear or by a shrinking
\* assign_bytes included); the records before it are as they were.
C20_EmplaceBackZeroed ==
    last.op = "emplace_back" =>
        /\ size(Target, buf) = size(Target, last.pre) + 1
        /\ byte_size(Target, buf) = byte_size(Target, last.pre) + stride(Target)
        /\ bytes(Target, buf) = bytes(Target, last.pre) \o Zeros(stride(Target))

\* a record appended after one whose bytes are not zero, in a segmented
\* Buffer of one record per page
C20_Witness ==
    /\ last.op = "emplace_back"
    /\ Target.policy = "segmented"
    /\ Target.rpp = 1
    /\ size(Target, last.pre) = 1
    /\ \E i \in 1..stride(Target) : bytes(Target, last.pre)[i] # 0
    /\ size(Target, buf) = 2
    /\ Slice(bytes(Target, buf), stride(Target), stride(Target)) = Zeros(stride(Target))

\* the last write_binary opened the file and wrote it
Wrote == last.op = "write_binary" /\ last.res = "ok"

\* byte k of the little-endian 64-bit encoding of a natural below 2^31
LittleEndianByte(n, k) ==
    IF k = 0 THEN n % 256
    ELSE IF k = 1 THEN (n \div 256) % 256
    ELSE IF k = 2 THEN (n \div 65536) % 256
    ELSE IF k = 3 THEN (n \div 16777216) % 256
    ELSE 0

\* the 8 bytes at offset off of the file are the little-endian encoding of n
FieldIs(f, off, n) == \A k \in 0..7 : f[off + k + 1] = LittleEndianByte(n, k)

\* C24: write_binary leaves a file of exactly 40 + byte_size() bytes: bytes
\* 0-7 are ASCII NSRDBIN1, 8-15 the schema fingerprint, 16-23 the stride,
\* 24-31 size(), 32-39 byte_size(), each a little-endian 64-bit value, the
\* written payload_size being stride * record_count; bytes() follow, and
\* nothing of what the file held before remains.
C24_FileIsHeaderThenPayload ==
    Wrote =>
        /\ Len(wire) = 40 + origin.count * stride(Source)
        /\ Slice(wire, 0, 8) = <<78, 83, 82, 68, 66, 73, 78, 49>>
        /\ \A k \in 0..7 : wire[8 + k + 1] = kSchemaHash(Source.schema)[8 - k]
        /\ FieldIs(wire, 16, stride(Source))
        /\ FieldIs(wire, 24, origin.count)
        /\ FieldIs(wire, 32, Len(origin.payload))
        /\ Len(origin.payload) = stride(Source) * origin.count
        /\ SubSeq(wire, 41, Len(wire)) = origin.payload

\* one record written over a file that held two
C24_Witness ==
    /\ Wrote
    /\ last.input # NoFile
    /\ Len(last.input) = 40 + 2 * stride(Source)
    /\ origin.count = 1
    /\ Len(wire) = 40 + stride(Source)
    /\ wire[25] = 1
    /\ wire[33] = stride(Source)

\* the last assign_bytes was refused for its payload size
AssignRefused == last.op = "assign_bytes" /\ last.res = "payload_size_mismatch"

\* C26: an assign_bytes call that returns payload_size_mismatch leaves the
\* buffer unchanged: size() and bytes() are what they were before the call,
\* also when the buffer was not empty.
C26_MismatchLeavesBuffer ==
    AssignRefused =>
        /\ size(Target, buf) = size(Target, last.pre)
        /\ bytes(Target, buf) = bytes(Target, last.pre)
        /\ \A i \in 0..(size(Target, last.pre) - 1) :
              read_record(Target, buf, i) = read_record(Target, last.pre, i)

\* a payload one byte short of one record, refused by a buffer of two records
C26_Witness ==
    /\ AssignRefused
    /\ size(Target, last.pre) = 2
    /\ Len(last.input) = stride(Source) - 1
    /\ size(Target, buf) = 2
    /\ bytes(Target, buf) # Zeros(2 * stride(Target))

\* C27: whenever read_binary returns success, the target's size() equals the
\* record_count field of the file header and its byte_size() equals the
\* payload_size_bytes field, whatever 64-bit values the two fields take.
C27_SizesAreHeaderFields ==
    (last.op = "read_binary" /\ last.res = "ok") =>
        /\ U64FromNat(size(Target, buf)) = HeaderField(File, 24)
        /\ U64FromNat(byte_size(Target, buf)) = HeaderField(File, 32)

(***************************************************************************)
(* The size prefix of the stream format, decoded by itself and by the      *)
(* decode hook.                                                            *)
(***************************************************************************)
\* the bytes a size prefix is made of: both ends of each of the three forms
PrefixBytes == {0, 8, 128, 191, 192, 255}

MaxPrefixLen == 4

MaxPayload == 16

\* the byte sequences that stand where the size prefix is expected
PrefixInputs ==
    UNION { [1..n -> PrefixBytes] : n \in 0..MaxPrefixLen }

\* the targets of the decode hook
PrefixConfigs ==
    { p \in ConfigPairs : p.src = p.dst \/ p.dst.schema = "PodSample" }

\* the first 16 bytes of a stream for the target c: fingerprint and stride
StreamHeader(c) ==
    store_le_u64(kSchemaHash(c.schema)) \o store_le_u64(U64FromNat(kRecordSize(c.schema)))

InitPrefix ==
    /\ cfg \in PrefixConfigs
    /\ buf \in {<<>>, Built(cfg.dst, 1)}
    /\ wire \in PrefixInputs
    /\ origin = NoOrigin
    /\ last = Done("init", "ok", <<>>, "NoError", <<>>)

\* detail::read_bitsery_size_prefix_1b over an archive that holds wire; res is
\* what it returns, out_size and the number of bytes the adapter gave
ReadSizePrefix ==
    LET p == read_bitsery_size_prefix_1b(InputAdapter(wire))
    IN  /\ last' = Done("read_size_prefix",
                        [ok |-> p.ok, size |-> p.size, read |-> p.ad.pos],
                        wire, p.ad.err, buf)
        /\ UNCHANGED <<cfg, buf, wire, origin>>

\* the size a complete prefix announces is one the hook would allocate for
Accepted(c, d) ==
    LET p == read_bitsery_size_prefix_1b(InputAdapter(d))
    IN  p.ok /\ p.size <= k_bitsery_max_payload_bytes /\ p.size % stride(c) = 0

\* quickDeserialization of a stream with the target's fingerprint and stride,
\* then wire, then 8 bytes or none.  An accepted payload of more than
\* MaxPayload bytes is left out: the storage it takes is not modelled.
DecodePrefixed ==
    \E rest \in {<<>>, PodOf(1)} :
        LET data == StreamHeader(cfg.dst) \o wire \o rest
            r == serialize_input(cfg.dst, buf, InputAdapter(data))
        IN  /\ Accepted(cfg.dst, wire \o rest) =>
                  read_bitsery_size_prefix_1b(InputAdapter(wire \o rest)).size <= MaxPayload
            /\ buf' = r.st
            /\ last' = Done("decode", IF r.ad.err = "NoError" THEN "ok" ELSE "failed",
                            data, r.ad.err, buf)
            /\ UNCHANGED <<cfg, wire, origin>>

NextPrefix ==
    \/ ReadSizePrefix
    \/ DecodePrefixed

SpecPrefix == InitPrefix /\ [][NextPrefix]_vars

\* the number of bytes the prefix that starts with hb is made of
FormLength(hb) ==
    IF hb < 128 THEN 1 ELSE IF hb < 192 THEN 2 ELSE 4

\* the value of a complete prefix d, form by form
FormValue(d) ==
    IF FormLength(d[1]) = 1 THEN d[1]
    ELSE IF FormLength(d[1]) = 2 THEN (d[1] - 128) * 256 + d[2]
    ELSE ((d[1] - 192) * 256 + d[2]) * 65536 + (d[3] + 256 * d[4])

\* the input ends before the prefix it starts is complete
PrefixCutShort(d) == d = <<>> \/ Len(d) < FormLength(d[1])

\* C25: the size-prefix decoder reads exactly 1, 2 or 4 bytes by the first
\* byte hb: hb < 0x80 gives hb; bit 7 set and bit 6 clear gives
\* ((hb & 0x7F) << 8) | lb; bits 7 and 6 set give
\* ((((hb & 0x3F) << 8) | lb) << 16) | lw, lw a little-endian 2-byte word.  If
\* the input ends before the bytes required are read the decoder reports
\* failure and the hook leaves the buffer empty.
C25_SizePrefixForms ==
    /\ last.op = "read_size_prefix" =>
          IF PrefixCutShort(last.input) THEN ~last.res.ok
          ELSE /\ last.res.ok
               /\ last.res.read = FormLength(last.input[1])
               /\ last.res.size = FormValue(last.input)
    /\ (last.op = "decode" /\ PrefixCutShort(SubSeq(last.input, 17, Len(last.input)))) =>
          /\ last.res = "failed"
          /\ Cleared

\* the largest 4-byte prefix, FF FF FF FF, decoded to 0x3FFFFFFF
C25_Witness ==
    /\ last.op = "read_size_prefix"
    /\ last.input = <<255, 255, 255, 255>>
    /\ last.res = [ok |-> TRUE, size |-> 1073741823, read |-> 4]

\* the last decode was given a stream that starts with the target's
\* fingerprint and stride, and what follows them
HeaderAccepted ==
    /\ last.op = "decode"
    /\ Len(last.input) >= 16
    /\ SubSeq(last.input, 1, 16) = StreamHeader(Target)
AfterHeader == SubSeq(last.input, 17, Len(last.input))

\* the bytes that follow a complete size prefix are fewer than it announces
PayloadShort(d) == Len(d) - FormLength(d[1]) < FormValue(d)

\* C30: whenever read_bitsery_size_prefix_1b succeeds the decoded value is at
\* most 0x3FFFFFFF (k_bitsery_max_payload_bytes), so the hook never rejects a
\* payload length for being above the limit: every failure after the
\* fingerprint and stride were accepted is a length that is no multiple of
\* the stride (InvalidData) or short input (DataOverflow).
C30_LimitNeverDecides ==
    /\ (last.op = "read_size_prefix" /\ last.res.ok) => last.res.size <= 1073741823
    /\ (HeaderAccepted /\ last.res = "failed") =>
          \/ /\ last.err = "InvalidData"
             /\ ~PrefixCutShort(AfterHeader)
             /\ FormValue(AfterHeader) <= 1073741823
             /\ FormValue(AfterHeader) % stride(Target) # 0
          \/ /\ last.err = "DataOverflow"
             /\ PrefixCutShort(AfterHeader) \/ PayloadShort(AfterHeader)

\* the largest prefix, FF FF FF FF, in a stream for a Buffer of stride 4 that
\* held a record: 0x3FFFFFFF is within the limit and is refused as no
\* multiple of 4
C30_Witness ==
    /\ HeaderAccepted
    /\ stride(Target) = 4
    /\ AfterHeader = <<255, 255, 255, 255>>
    /\ last.err = "InvalidData"
    /\ last.pre # <<>>
    /\ Cleared

(***************************************************************************)
(* The page-wise loops of bytes(), assign_bytes and                        *)
(* read_payload_from_bitsery, one iteration at a time.  buf is the         *)
(* Buffer's storage, wire the vector on the other side of the memcpy (out, *)
(* the payload, or the adapter's remaining input), and last.input the      *)
(* loop's position.                                                        *)
(***************************************************************************)
MaxPageRecs == 5

\* the Buffer instantiations whose loops are stepped
PageInstances ==
    { Instance("Inner", 1, "segmented"), Instance("Pair", 2, "segmented"),
      Instance("Inner", 256, "vector"), Instance("PodSample", 2, "segmented") }

\* one memcpy or readBuffer of a loop: len bytes at byte offset at
Span(at, len) == [at |-> at, len |-> len]

\* the position of a loop: the size it runs to, its offset and the chunks done
Position(total, offset, chunks) == [total |-> total, offset |-> offset, chunks |-> chunks]

\* fault: a chunk is one record, whatever the page holds
loop_chunk_record(c, total, offset) == Min(kRecordSize(c.schema), total - offset)

\* const std::size_t chunk = std::min(kPageBytes, size - offset), in bytes;
\* chunk_records * sizeof(T) with chunk_records =
\* std::min(kRecordsPerPage, record_count - offset_records) for a native POD
loop_chunk(c, total, offset) ==
    IF has_record_traits(c.schema) THEN Min(kPageBytes(c), total - offset)
    ELSE Min(c.rpp, (total \div kRecordSize(c.schema)) - (offset \div kRecordSize(c.schema)))
             * kRecordSize(c.schema)

\* while (offset < size): the loop condition
loop_continues(pos) == pos.offset < pos.total

\* offset += chunk, the chunk noted
loop_advance(c, pos) ==
    LET chunk == loop_chunk(c, pos.total, pos.offset)
    IN  Position(pos.total, pos.offset + chunk, Append(pos.chunks, Span(pos.offset, chunk)))

\* the payloads handed to assign_bytes and to the adapter: bytes() of a
\* Buffer of 0..MaxPageRecs records
PagePayloads(c) == { bytes(c, Built(c, k)) : k \in 0..MaxPageRecs }

InitPages ==
    /\ cfg \in { [src |-> c, dst |-> c] : c \in PageInstances }
    /\ buf = <<>>
    /\ wire = <<>>
    /\ origin = NoOrigin
    /\ last = Done("init", "ok", Position(0, 0, <<>>), "NoError", <<>>)

\* no loop is running
Idle == last.res # "running"

\* buffer.bytes(): out(bytes_.size()), offset = 0
StartBytes ==
    /\ Idle
    /\ wire' = Zeros(byte_size(cfg.dst, buf))
    /\ last' = Done("bytes", "running", Position(byte_size(cfg.dst, buf), 0, <<>>), "NoError", buf)
    /\ UNCHANGED <<cfg, buf, origin>>

\* buffer.assign_bytes(payload) of a payload that is taken: the storage
\* resized, offset = 0
StartAssign ==
    /\ Idle
    /\ \E payload \in PagePayloads(cfg.src) :
          /\ wire' = payload
          /\ buf' = IF has_record_traits(cfg.dst.schema) THEN Resize(buf, Len(payload), 0)
                    ELSE Resize(buf, Len(payload) \div kRecordSize(cfg.dst.schema),
                                Zeros(kRecordSize(cfg.dst.schema)))
          /\ last' = Done("assign_bytes", "running", Position(Len(payload), 0, <<>>), "NoError", buf)
    /\ UNCHANGED <<cfg, origin>>

\* buffer.read_payload_from_bitsery(adapter, payload_size) of a segmented
\* Buffer, the adapter holding the payload or all but its last byte
StartReadPayload ==
    /\ Idle
    /\ ~is_vector_storage_policy(cfg.dst)
    /\ \E payload \in PagePayloads(cfg.src), cut \in {0, 1} :
          /\ wire' = CutTail(payload, cut)
          /\ buf' = IF has_record_traits(cfg.dst.schema) THEN Resize(buf, Len(payload), 0)
                    ELSE Resize(buf, Len(payload) \div kRecordSize(cfg.dst.schema),
                                Zeros(kRecordSize(cfg.dst.schema)))
          /\ last' = Done("read_payload", "running", Position(Len(payload), 0, <<>>), "NoError", buf)
    /\ UNCHANGED <<cfg, origin>>

\* one iteration of the running loop
LoopStep ==
    /\ last.res = "running"
    /\ loop_continues(last.input)
    /\ LET offset == last.input.offset
           chunk == loop_chunk(cfg.dst, last.input.total, offset)
           r == AdapterRead([data |-> wire, pos |-> offset, err |-> "NoError"], chunk)
       IN  IF last.op = "bytes"
           THEN /\ wire' = Patch(wire, offset, ReadStorage(cfg.dst, buf, offset, chunk))
                /\ last' = [last EXCEPT !.input = loop_advance(cfg.dst, last.input)]
                /\ UNCHANGED buf
           ELSE IF last.op = "assign_bytes"
           THEN /\ buf' = WriteStorage(cfg.dst, buf, offset, Slice(wire, offset, chunk))
                /\ last' = [last EXCEPT !.input = loop_advance(cfg.dst, last.input)]
                /\ UNCHANGED wire
           ELSE IF r.ad.err # "NoError"
           THEN /\ buf' = clear(cfg.dst, buf)
                /\ last' = [last EXCEPT !.res = "failed", !.err = r.ad.err,
                                        !.input = loop_advance(cfg.dst, last.input)]
                /\ UNCHANGED wire
           ELSE /\ buf' = WriteStorage(cfg.dst, buf, offset, r.out)
                /\ last' = [last EXCEPT !.input = loop_advance(cfg.dst, last.input)]
                /\ UNCHANGED wire
    /\ UNCHANGED <<cfg, origin>>

\* the loop condition is false: the function returns
LoopExit ==
    /\ last.res = "running"
    /\ ~loop_continues(last.input)
    /\ last' = [last EXCEPT !.res = "done"]
    /\ UNCHANGED <<cfg, buf, wire, origin>>

NextPages ==
    \/ StartBytes
    \/ StartAssign
    \/ StartReadPayload
    \/ LoopStep
    \/ LoopExit

\* a function that was called runs on: its next statement is executed
SpecPages ==
    InitPages /\ [][NextPages]_vars /\ WF_vars(LoopStep) /\ WF_vars(LoopExit)

\* the position of the loop that runs or ran last
Loop == last.input
PageBytes == kPageBytes(Target)

\* every chunk starts at a multiple of the page size, is not empty, is the
\* smaller of the page size and what remains, and lies inside one page
ChunksAligned ==
    \A i \in 1..Len(Loop.chunks) :
        LET s == Loop.chunks[i]
        IN  /\ s.at % PageBytes = 0
            /\ s.len > 0
            /\ s.len = Min(PageBytes, Loop.total - s.at)
            /\ s.at \div PageBytes = (s.at + s.len - 1) \div PageBytes

\* the chunks follow one another from offset 0 without gap or overlap
ChunksInOrder ==
    /\ Loop.chunks # <<>> => Loop.chunks[1].at = 0
    /\ \A i \in 1..(Len(Loop.chunks) - 1) :
          Loop.chunks[i + 1].at = Loop.chunks[i].at + Loop.chunks[i].len

\* the chunks of a loop that has returned end at byte_size(), and the bytes
\* copied are the Buffer's
ChunksComplete ==
    last.res = "done" =>
        /\ Loop.total = byte_size(Target, buf)
        /\ IF Loop.chunks = <<>> THEN Loop.total = 0
           ELSE Loop.chunks[Len(Loop.chunks)].at + Loop.chunks[Len(Loop.chunks)].len = Loop.total
        /\ bytes(Target, buf) = wire

\* C28: in the page-wise loops of bytes(), assign_bytes and
\* read_payload_from_bitsery every chunk starts at a multiple of the page
\* size, has length min(page size, remaining) > 0 and so lies inside a single
\* page; the loop terminates, and its chunks cover each byte of
\* [0, byte_size) exactly once, in increasing order.
C28_PageWiseLoops ==
    /\ [](ChunksAligned /\ ChunksInOrder /\ ChunksComplete)
    /\ (last.res = "running") ~> (last.res \in {"done", "failed"})

\* bytes() of five Pair records in pages of two: chunks of 8, 8 and 4 bytes
C28_Witness ==
    /\ last.op = "bytes"
    /\ last.res = "done"
    /\ Target = Instance("Pair", 2, "segmented")
    /\ Loop.chunks = <<Span(0, 8), Span(8, 8), Span(16, 4)>>
    /\ wire = bytes(Target, Built(Target, 5))

(***************************************************************************)
(* Two Buffers of one schema, one segmented and one contiguous, given the  *)
(* same calls.  buf is the storage of the contiguous Buffer (cfg.dst),     *)
(* wire that of the segmented one (cfg.src); last.res holds the result of  *)
(* the call on each, the segmented one first.                              *)
(***************************************************************************)
\* the pairs of instantiations compared: pages of one and of two records
\* against std::vector storage
TwinConfigs ==
    { [src |-> Instance("Inner", 1, "segmented"), dst |-> Instance("Inner", 256, "vector")],
      [src |-> Instance("Pair", 2, "segmented"), dst |-> Instance("Pair", 256, "vector")],
      [src |-> Instance("PodSample", 1, "segmented"), dst |-> Instance("PodSample", 4, "vector")] }

InitTwin ==
    /\ cfg \in TwinConfigs
    /\ buf = <<>>
    /\ wire = <<>>
    /\ origin = NoOrigin
    /\ last = Done("init", <<"ok", "ok">>, <<>>, "NoError", <<>>)

\* emplace_back() on both
TwinEmplaceBack ==
    /\ size(cfg.dst, buf) < MaxRecs
    /\ wire' = emplace_back(cfg.src, wire)
    /\ buf' = emplace_back(cfg.dst, buf)
    /\ last' = Done("emplace_back", <<"ok", "ok">>, <<>>, "NoError", buf)
    /\ UNCHANGED <<cfg, origin>>

\* emplace(args...) on both
TwinEmplace ==
    /\ size(cfg.dst, buf) < MaxRecs
    /\ wire' = emplace(cfg.src, wire, 258, PodOf(7))
    /\ buf' = emplace(cfg.dst, buf, 258, PodOf(7))
    /\ last' = Done("emplace", <<"ok", "ok">>, <<>>, "NoError", buf)
    /\ UNCHANGED <<cfg, origin>>

\* buffer[i].field = value on both
TwinWrite ==
    \E i \in 0..(size(cfg.dst, buf) - 1) :
        /\ i < size(cfg.src, wire)
        /\ wire' = write_record(cfg.src, wire, i, ScoreOf(4), PodOf(4))
        /\ buf' = write_record(cfg.dst, buf, i, ScoreOf(4), PodOf(4))
        /\ last' = Done("write", <<"ok", "ok">>, <<i>>, "NoError", buf)
        /\ UNCHANGED <<cfg, origin>>

\* clear() on both
TwinClear ==
    /\ wire' = clear(cfg.src, wire)
    /\ buf' = clear(cfg.dst, buf)
    /\ last' = Done("clear", <<"ok", "ok">>, <<>>, "NoError", buf)
    /\ UNCHANGED <<cfg, origin>>

\* assign_bytes(payload) on both: all of a source's bytes(), or all but the
\* last byte
TwinAssignBytes ==
    \E src \in Sources(cfg.src) :
        \E n \in {byte_size(cfg.src, src), byte_size(cfg.src, src) - 1} \cap Nat :
            LET payload == SubSeq(bytes(cfg.src, src), 1, n)
                rs == assign_bytes(cfg.src, wire, payload)
                rd == assign_bytes(cfg.dst, buf, payload)
            IN  /\ wire' = rs.st
                /\ buf' = rd.st
                /\ last' = Done("assign_bytes", <<rs.res, rd.res>>, payload, "NoError", buf)
                /\ UNCHANGED <<cfg, origin>>

\* quickDeserialization of one stream into both: an encoded source or a
\* damaged copy of it
TwinDecode ==
    \E src \in Sources(cfg.src) :
        \E data \in Found(serialize_output(cfg.src, src), "encode", "encode") :
            LET rs == serialize_input(cfg.src, wire, InputAdapter(data))
                rd == serialize_input(cfg.dst, buf, InputAdapter(data))
            IN  /\ wire' = rs.st
                /\ buf' = rd.st
                /\ last' = Done("decode", <<rs.ad.err, rd.ad.err>>, data, rd.ad.err, buf)
                /\ UNCHANGED <<cfg, origin>>

NextTwin ==
    \/ TwinEmplaceBack
    \/ TwinEmplace
    \/ TwinWrite
    \/ TwinClear
    \/ TwinAssignBytes
    \/ TwinDecode

SpecTwin == InitTwin /\ [][NextTwin]_vars

\* C29: the storage policy is unobservable: after the same sequence of
\* emplace_back, emplace, field writes, clear, assign_bytes and decode calls
\* a segmented buffer and a contiguous buffer of the same schema return the
\* same size(), byte_size(), bytes(), per-record field values and the same
\* success or error results.
C29_PolicyUnobservable ==
    /\ size(Source, wire) = size(Target, buf)
    /\ byte_size(Source, wire) = byte_size(Target, buf)
    /\ bytes(Source, wire) = bytes(Target, buf)
    /\ \A i \in 0..(size(Target, buf) - 1) :
          read_record(Source, wire, i) = read_record(Target, buf, i)
    /\ last.res[1] = last.res[2]

\* two records decoded across two pages of the segmented buffer, both
\* buffers having held one record
C29_Witness ==
    /\ last.op = "decode"
    /\ last.res = <<"NoError", "NoError">>
    /\ Source.rpp = 1
    /\ size(Source, wire) = 2
    /\ size(Target, last.pre) = 1
    /\ bytes(Target, buf) # Zeros(byte_size(Target, buf))
    /\ bytes(Source, wire) = bytes(Target, buf)

(***************************************************************************)
(* Segmented storage page by page.  sfl::segmented_vector keeps its        *)
(* elements in pages of kPageBytes bytes, each allocated by itself; here a *)
(* page is its address and its memory, and buf is the vector: its pages in *)
(* order, its size() and nothing else.  wire is the mutable view the       *)
(* caller holds, origin.payload the records appended so far, in order, as  *)
(* the caller wrote them.                                                  *)
(***************************************************************************)
\* the segmented instantiations explored: pages of one, two and three records
PagedInstances ==
    { Instance("Inner", 1, "segmented"), Instance("Pair", 2, "segmented"),
      Instance("Pair", 3, "segmented") }

\* a page at an address, holding kPageBytes bytes
Page(addr, mem) == [addr |-> addr, mem |-> mem]

\* a segmented_vector: pages allocated, elements in use
Paged(pages, n) == [pages |-> pages, size |-> n]

\* the number of pages that hold n elements
PagesFor(c, n) == (n + kPageBytes(c) - 1) \div kPageBytes(c)

\* the allocator hands out an address that is not in use
FreshAddr(pages) ==
    CHOOSE a \in 1..(Len(pages) + 1) : \A i \in 1..Len(pages) : pages[i].addr # a

RECURSIVE Allocated(_, _, _)
\* pages with k more allocated behind them
Allocated(c, pages, k) ==
    IF k <= 0 THEN pages
    ELSE Allocated(c, Append(pages, Page(FreshAddr(pages), Zeros(kPageBytes(c)))), k - 1)

\* segmented_vector::resize(n): pages are allocated behind the existing
\* ones as needed, and the new elements are value-initialised; no existing
\* page is moved or released
segmented_resize(c, st, n) ==
    LET pages == Allocated(c, st.pages, PagesFor(c, n) - Len(st.pages))
    IN  Paged([p \in 1..Len(pages) |->
                 Page(pages[p].addr,
                      [j \in 1..kPageBytes(c) |->
                         LET k == (p - 1) * kPageBytes(c) + (j - 1)
                         IN  IF k >= st.size /\ k < n THEN 0 ELSE pages[p].mem[j]])],
              n)

\* segmented_vector::clear(): size() is 0; the pages are kept or released
segmented_clear(c, st, keep) == Paged(IF keep THEN st.pages ELSE <<>>, 0)

\* bytes_[k]: element k lives in page k / kPageBytes at slot k % kPageBytes
segmented_at(c, st, k) == st.pages[(k \div kPageBytes(c)) + 1].mem[(k % kPageBytes(c)) + 1]

\* bytes_[k] = v for each k of [offset, offset + Len(d))
segmented_store(c, st, offset, d) ==
    Paged([p \in 1..Len(st.pages) |->
             Page(st.pages[p].addr,
                  [j \in 1..kPageBytes(c) |->
                     LET k == (p - 1) * kPageBytes(c) + (j - 1)
                     IN  IF k >= offset /\ k < offset + Len(d) THEN d[k - offset + 1]
                         ELSE st.pages[p].mem[j]])],
          st.size)

\* byte_ptr(offset) = &bytes_[offset]: a pointer into a page
byte_ptr(c, st, offset) ==
    [addr |-> st.pages[(offset \div kPageBytes(c)) + 1].addr, off |-> offset % kPageBytes(c)]

\* fault: the slot within the page is taken for the offset
operator_subscript_slot(c, st, index) == byte_ptr(c, st, (index % c.rpp) * stride(c))

\* Buffer::operator[](index): a view over byte_ptr(index * stride)
operator_subscript(c, st, index) == byte_ptr(c, st, index * stride(c))

\* the pages, if any, at the address a pointer holds
PagesAt(st, ptr) == { p \in 1..Len(st.pages) : st.pages[p].addr = ptr.addr }

\* n bytes read through a pointer into a page that exists
deref(st, ptr, n) ==
    LET p == CHOOSE q \in PagesAt(st, ptr) : TRUE
    IN  Slice(st.pages[p].mem, ptr.off, n)

\* the bytes d written through a pointer into a page that exists
store_through(st, ptr, d) ==
    LET p == CHOOSE q \in PagesAt(st, ptr) : TRUE
    IN  Paged([st.pages EXCEPT ![p] = Page(st.pages[p].addr, Patch(st.pages[p].mem, ptr.off, d))],
              st.size)

\* fault: the zeroing loop starts at 0
paged_emplace_back_zero_all(c, st) ==
    LET old_size == st.size
        grown == segmented_resize(c, st, old_size + stride(c))
    IN  segmented_store(c, grown, 0, Zeros(old_size + stride(c)))

\* Buffer::emplace_back on a segmented Buffer: bytes_.resize, the appended
\* bytes zeroed one by one, the defaults assigned
paged_emplace_back(c, st) ==
    LET old_size == st.size
        grown == segmented_resize(c, st, old_size + stride(c))
        zeroed == segmented_store(c, grown, old_size, Zeros(stride(c)))
    IN  segmented_store(c, zeroed, old_size, defaults(c))

RECURSIVE paged_bytes_loop(_, _, _, _)
\* the loop of Buffer::bytes: a memcpy of one chunk from byte_ptr(offset)
paged_bytes_loop(c, st, out, offset) ==
    IF offset < st.size
    THEN LET chunk == Min(kPageBytes(c), st.size - offset)
         IN  paged_bytes_loop(c, st,
                              Patch(out, offset, deref(st, byte_ptr(c, st, offset), chunk)),
                              offset + chunk)
    ELSE out

\* Buffer::bytes of a segmented Buffer
paged_bytes(c, st) == paged_bytes_loop(c, st, Zeros(st.size), 0)

\* no view is held
NoView == [rec |-> -1, ptr |-> [addr |-> 0, off |-> 0], taken |-> 0]

\* the records appended, in order, as the caller wrote them
Appended(schema, count, payload) ==
    [by |-> "caller", schema |-> schema, count |-> count, payload |-> payload]

InitPaged ==
    /\ cfg \in { [src |-> c, dst |-> c] : c \in PagedInstances }
    /\ buf = Paged(<<>>, 0)
    /\ wire = NoView
    /\ origin = Appended(cfg.dst.schema, 0, <<>>)
    /\ last = Done("init", "ok", <<>>, "NoError", Paged(<<>>, 0))

\* auto rr = buffer.emplace_back(); rr.score = ...: each record appended is
\* given a score of its own through the view returned
PagedEmplaceBack ==
    /\ origin.count < MaxPageRecs
    /\ LET score == store_le_i16(ScoreOf(origin.count))
           appended == paged_emplace_back(cfg.dst, buf)
       IN  /\ buf' = store_through(appended,
                                   operator_subscript(cfg.dst, appended, origin.count), score)
           /\ origin' = Appended(origin.schema, origin.count + 1,
                                 origin.payload \o Patch(defaults(cfg.dst), 0, score))
    /\ last' = Done("emplace_back", "ok", <<>>, "NoError", buf)
    /\ UNCHANGED <<cfg, wire>>

\* auto view = buffer[i]; the view remembers how many records there were
TakeView ==
    \E i \in 0..(origin.count - 1) :
        /\ wire' = [rec |-> i, ptr |-> operator_subscript(cfg.dst, buf, i),
                    taken |-> origin.count]
        /\ last' = Done("operator[]", "ok", <<i>>, "NoError", buf)
        /\ UNCHANGED <<cfg, buf, origin>>

\* view.score = 258, through the view held
WriteView ==
    /\ wire # NoView
    /\ PagesAt(buf, wire.ptr) # {}
    /\ buf' = store_through(buf, wire.ptr, store_le_i16(258))
    /\ origin' = [origin EXCEPT !.payload = Patch(@, wire.rec * stride(cfg.dst), store_le_i16(258))]
    /\ last' = Done("write", "ok", <<wire.rec>>, "NoError", buf)
    /\ UNCHANGED <<cfg, wire>>

\* buffer.clear(): the views are invalidated
PagedClear ==
    \E keep \in BOOLEAN :
        /\ buf' = segmented_clear(cfg.dst, buf, keep)
        /\ wire' = NoView
        /\ origin' = Appended(origin.schema, 0, <<>>)
        /\ last' = Done("clear", "ok", <<>>, "NoError", buf)
        /\ UNCHANGED cfg

NextPaged ==
    \/ PagedEmplaceBack
    \/ TakeView
    \/ WriteView
    \/ PagedClear

SpecPaged == InitPaged /\ [][NextPaged]_vars

\* the position, among the pages in use, of the page a pointer points into
PageOf(st, ptr) == CHOOSE p \in PagesAt(st, ptr) : TRUE

\* the i-th record appended, as the caller wrote it
AppendedRecord(i) == Slice(origin.payload, i * stride(cfg.dst), stride(cfg.dst))

\* C23: after N records were appended, operator[](i) addresses the i-th
\* appended record for every i < N, in page i / R at slot i % R, and
\* bytes()[i*stride, (i+1)*stride) are exactly that record's bytes.
C23_InsertionOrderAcrossPages ==
    /\ buf.size = origin.count * stride(cfg.dst)
    /\ \A i \in 0..(origin.count - 1) :
          LET ptr == operator_subscript(cfg.dst, buf, i)
          IN  /\ PagesAt(buf, ptr) # {}
              /\ PageOf(buf, ptr) = (i \div cfg.dst.rpp) + 1
              /\ ptr.off = (i % cfg.dst.rpp) * stride(cfg.dst)
              /\ deref(buf, ptr, stride(cfg.dst)) = AppendedRecord(i)
              /\ Slice(paged_bytes(cfg.dst, buf), i * stride(cfg.dst), stride(cfg.dst))
                     = AppendedRecord(i)

\* C23 witness: five records over pages of two, the last one alone in the
\* third page, each record with a score of its own
C23_Witness ==
    /\ cfg.dst.rpp = 2
    /\ origin.count = 5
    /\ Len(buf.pages) = 3
    /\ AppendedRecord(4) # AppendedRecord(3)
    /\ AppendedRecord(1) # AppendedRecord(0)

\* the view held still addresses its record, in a page that exists, and
\* what was written through it is what operator[] and bytes() read
HeldViewValid ==
    wire # NoView =>
        /\ PagesAt(buf, wire.ptr) # {}
        /\ wire.ptr = operator_subscript(cfg.dst, buf, wire.rec)
        /\ deref(buf, wire.ptr, stride(cfg.dst)) = AppendedRecord(wire.rec)
        /\ Slice(paged_bytes(cfg.dst, buf), wire.rec * stride(cfg.dst), stride(cfg.dst))
               = AppendedRecord(wire.rec)

\* the append just made left every page in use where it was and every
\* byte of the earlier records as it was
AppendLeftEarlier ==
    last.op = "emplace_back" =>
        /\ \A p \in 1..PagesFor(cfg.dst, last.pre.size) :
              buf.pages[p].addr = last.pre.pages[p].addr
        /\ \A k \in 0..(last.pre.size - 1) :
              segmented_at(cfg.dst, buf, k) = segmented_at(cfg.dst, last.pre, k)

\* C22: under the segmented policy a page in use never moves and the bytes
\* of the records appended earlier are unchanged by emplace_back; a mutable
\* view from operator[](i) stays valid across later emplace_back calls: it
\* still addresses record i, and a write through it is read back by a fresh
\* operator[](i) and by bytes().
C22_PagesNeverMove == HeldViewValid /\ AppendLeftEarlier

\* C22 witness: a view of the first record, taken when it was the only
\* one, is written through after the Buffer grew into its third page
C22_Witness ==
    /\ wire.rec = 0
    /\ wire.taken = 1
    /\ last.op = "write"
    /\ Len(buf.pages) >= 3
    /\ buf.size > 2 * kPageBytes(cfg.dst)
    /\ deref(buf, wire.ptr, 2) = store_le_i16(258)

(***************************************************************************)
(* Declared defaults and emplace(args...).  A Data value gives, for each   *)
(* field in declaration order, the value of a scalar, the field values of  *)
(* a nested record, or the alternative a sum holds and its value.          *)
(***************************************************************************)
RECURSIVE WireOf(_, _), WireOfFrom(_, _, _), ReadWire(_, _)

\* the bytes the views write for a value of a type: store_le for a scalar,
\* field after field for a nested record
WireOf(t, v) ==
    IF t.kind = "record" THEN WireOfFrom(Fields(t.name), v, 1)
    ELSE store_le("little", t, v)

WireOfFrom(fields, v, i) ==
    IF i > Len(fields) THEN <<>>
    ELSE WireOf(fields[i], v[i]) \o WireOfFrom(fields, v, i + 1)

\* the value the views read from the bytes of a type: load_le for a scalar,
\* field after field for a nested record
ReadWire(t, bs) ==
    IF t.kind = "record"
    THEN [i \in 1..Len(Fields(t.name)) |->
            ReadWire(Fields(t.name)[i],
                     Slice(bs, FieldLayout(t.name, i).offset, FieldLayout(t.name, i).size))]
    ELSE load_le("little", t, bs)

\* one field of a Data: alt is 0 for a field that is not a sum
Held(alt, value) == [alt |-> alt, value |-> value]

\* DefaultsExample::Data{}: the declared defaults
DeclaredDefaults ==
    << Held(0, TRUE),
       Held(0, PatternOf(4, 7)),
       Held(0, <<PatternOf(4, 11), PatternOf(4, -3)>>),
       Held(2, <<PatternOf(4, 4), PatternOf(4, 5)>>),
       Held(3, <<PatternOf(4, 9), PatternOf(4, 8)>>) >>

\* the arguments tried for emplace(args...): those of the test and others,
\* each alternative of either sum among them
SuppliedData ==
    { <<Held(0, flag), Held(0, PatternOf(4, 123)), Held(0, <<PatternOf(4, 1), PatternOf(4, 2)>>),
        sums[1], sums[2]>> :
        flag \in BOOLEAN,
        sums \in { <<Held(1, PatternOf(4, 42)), Held(2, <<63, 192, 0, 0>>)>>,
                   <<Held(2, <<PatternOf(4, -6), PatternOf(4, 0)>>), Held(1, PatternOf(4, 258))>>,
                   <<Held(3, <<63, 248, 0, 0, 0, 0, 0, 0>>),
                     Held(3, <<PatternOf(4, 0), PatternOf(4, 77)>>)>> } }

\* the type a field of a Data is written as
HeldType(schema, f, d) ==
    IF d.alt = 0 THEN Fields(schema)[f] ELSE Fields(schema)[f].alts[d.alt]

RECURSIVE assign_data_from(_, _, _, _, _)
\* T::assign_data(dst, src): every field written through its view, in
\* declaration order; a sum through its view's emplace
assign_data_from(schema, mem, base, data, f) ==
    IF f > Len(Fields(schema)) THEN mem
    ELSE LET t == Fields(schema)[f]
             bs == WireOf(HeldType(schema, f, data[f]), data[f].value)
             written ==
                 IF t.kind = "variant"
                 THEN variant_emplace(schema, mem, base, f, data[f].alt, bs)
                 ELSE IF t.kind = "union"
                 THEN union_emplace(schema, mem, base, f, data[f].alt, bs)
                 ELSE Patch(mem, base + FieldLayout(schema, f).offset, bs)
         IN  assign_data_from(schema, written, base, data, f + 1)

assign_data(schema, mem, base, data) == assign_data_from(schema, mem, base, data, 1)

\* fault: the record is appended and the arguments dropped
emplace_data_dropped(c, st, data) == emplace_back(c, st)

\* Buffer::emplace(args...): emplace_back, then assign from Data{args...}
emplace_data(c, st, data) ==
    assign_data(c.schema, emplace_back(c, st), Len(st), data)

\* the Buffer instantiations of the defaults test
DefaultsConfigs ==
    { [src |-> c, dst |-> c] :
        c \in { Instance("DefaultsExample", 256, "segmented"),
                Instance("DefaultsExample", 1, "segmented"),
                Instance("DefaultsExample", 256, "vector") } }

InitDefaults ==
    /\ cfg \in DefaultsConfigs
    /\ buf = <<>>
    /\ wire = NoFile
    /\ origin = NoOrigin
    /\ last = Done("init", "ok", <<>>, "NoError", <<>>)

\* buffer.emplace()
EmplaceNoArgs ==
    /\ size(cfg.dst, buf) < MaxRecs
    /\ buf' = emplace_data(cfg.dst, buf, DeclaredDefaults)
    /\ last' = Done("emplace()", "ok", DeclaredDefaults, "NoError", buf)
    /\ UNCHANGED <<cfg, wire, origin>>

\* buffer.emplace(flag, count, point, tagged, raw)
EmplaceArgs ==
    \E data \in SuppliedData :
        /\ size(cfg.dst, buf) < MaxRecs
        /\ buf' = emplace_data(cfg.dst, buf, data)
        /\ last' = Done("emplace", "ok", data, "NoError", buf)
        /\ UNCHANGED <<cfg, wire, origin>>

NextDefaults ==
    \/ EmplaceBack
    \/ EmplaceNoArgs
    \/ EmplaceArgs
    \/ Clear

SpecDefaults == InitDefaults /\ [][NextDefaults]_vars

\* field f of the record at base reads as the Data field d: a scalar or a
\* nested record by its value, a tagged sum by holding exactly the
\* alternative and its value, an untagged sum by as<Alt>()
FieldReads(schema, mem, base, f, d) ==
    LET t == Fields(schema)[f]
        L == FieldLayout(schema, f)
    IN  IF t.kind = "variant"
        THEN /\ holds_alternative(schema, mem, base, f, d.alt)
             /\ visit(schema, mem, base, f) = d.alt
             /\ get_if(schema, mem, base, f, d.alt).present
             /\ ReadWire(t.alts[d.alt], get_if(schema, mem, base, f, d.alt).bytes) = d.value
             /\ \A j \in 1..Len(t.alts) :
                   j # d.alt => ~get_if(schema, mem, base, f, j).present
        ELSE IF t.kind = "union"
        THEN ReadWire(t.alts[d.alt], union_as(schema, mem, base, f, d.alt)) = d.value
        ELSE ReadWire(t, Slice(mem, base + L.offset, L.size)) = d.value

\* C21: emplace_back() and emplace() with no arguments yield a record whose
\* every field reads its declared default, a sum holding its declared
\* default alternative and value; emplace(args...) yields a record whose
\* every field reads exactly the supplied value, and whose bytes are those of
\* the arguments written over zeros: nothing of the defaults assigned first
\* is left.
C21_DefaultsThenArguments ==
    /\ last.op \in {"emplace_back", "emplace()"} =>
          /\ \A f \in 1..Len(Fields(cfg.dst.schema)) :
                FieldReads(cfg.dst.schema, buf, Len(last.pre), f, DeclaredDefaults[f])
          /\ Len(buf) = Len(last.pre) + stride(cfg.dst)
    /\ last.op = "emplace" =>
          /\ \A f \in 1..Len(Fields(cfg.dst.schema)) :
                FieldReads(cfg.dst.schema, buf, Len(last.pre), f, last.input[f])
          /\ Slice(buf, Len(last.pre), stride(cfg.dst))
                 = assign_data(cfg.dst.schema, Zeros(stride(cfg.dst)), 0, last.input)
          /\ Slice(buf, 0, Len(last.pre)) = last.pre

\* C21 witness: after a record of defaults, emplace with flag false, the
\* tagged sum holding its 4-byte first alternative where the default held
\* 8 bytes, and the untagged sum written as a float
C21_Witness ==
    /\ last.op = "emplace"
    /\ Len(last.pre) = stride(cfg.dst)
    /\ Slice(last.pre, 0, stride(cfg.dst)) = defaults(cfg.dst)
    /\ last.input[1].value = FALSE
    /\ last.input[4].alt = 1
    /\ last.input[5].alt = 2
    /\ Len(buf) = 2 * stride(cfg.dst)

====
